---- MODULE Spec2Model ----
(***************************************************************************)
(* A model of the marketDB ingestion service                              *)
(* (services/ingestion: src/lunarcrush_ingestor.py, src/vector_store.py,  *)
(* main.py).                                                               *)
(*                                                                         *)
(* The specifications of the module:                                      *)
(*   Spec      - one LunarCrushIngestor receiving a sequence of calls     *)
(*               (process_and_store_posts, process_topic_summary);        *)
(*   SpecCycle - one ingest_all_symbols cycle: waves of ingest_symbol     *)
(*               tasks on the asyncio event loop;                          *)
(*   SpecFetch - one call of a @retry-decorated fetch_* coroutine;        *)
(*   SpecSent  - _calculate_dominant_sentiment as a pure function;        *)
(*   SpecOrder - the same function on breakdowns holding JSON decimals,   *)
(*               in every iteration order;                                 *)
(*   SpecPost  - process_and_store_posts on one post of any shape;        *)
(*   SpecRun   - the run_ingestion cycles of one process (main.py);       *)
(*   SpecStore - one MarketDBVectorStore receiving a sequence of calls;   *)
(*   SpecStats - one ingestor whose get_ingestion_stats is called between *)
(*               processing calls.                                         *)
(*                                                                         *)
(* Floats with two decimals (sentiments) are kept in hundredths:          *)
(* 3.0 is 300, 4.5 is 450.  The floats _calculate_dominant_sentiment      *)
(* computes with are binary64 numbers.                                    *)
(***************************************************************************)
EXTENDS Integers, Sequences, FiniteSets, Bags, TLC

VARIABLES
    \* ---- LunarCrushIngestor and the Qdrant collections it writes
    processed_posts,    \* self.processed_posts: set of post-id strings
    market_posts,       \* collection settings.COLLECTION_POSTS: bag of payloads
    topic_summaries,    \* collection settings.COLLECTION_TOPICS: bag of payloads
    vector_size,        \* vector size the collections were created with
    last,               \* what the most recent direct processing call did
    ncalls,             \* number of direct processing calls made so far
    stats,              \* what get_ingestion_stats did when last called
    \* ---- ingest_all_symbols / ingest_symbol
    symbols_arg,        \* the symbols argument ingest_all_symbols was called with
    symbols,            \* the symbol list of the cycle
    pc,                 \* position of ingest_all_symbols
    i,                  \* its loop index (0, 3, 6, ...)
    task,               \* per symbol index: the ingest_symbol task
    waves,              \* batches launched so far, in order
    sleeps,             \* inter-wave asyncio.sleep(2) calls made so far
    cycle,              \* number of the run_ingestion cycle of the process
    \* ---- one decorated fetch_* call
    f_kind, f_symbol, f_source, f_plan, f_pc, f_requests, f_result,
    \* ---- _calculate_dominant_sentiment
    sentiment_data, ds_pc, dominant,
    \* ---- MarketDBVectorStore (vector_store.py), on collection market_posts
    vs_last,            \* what the most recent call of the gateway did
    vs_calls            \* number of gateway calls made so far

ingestorVars == <<processed_posts, market_posts, topic_summaries, vector_size, last, ncalls, stats>>
cycleVars    == <<symbols_arg, symbols, pc, i, task, waves, sleeps, cycle>>
fetchVars    == <<f_kind, f_symbol, f_source, f_plan, f_pc, f_requests, f_result>>
sentVars     == <<sentiment_data, ds_pc, dominant>>
storeVars    == <<vs_last, vs_calls>>
vars         == <<ingestorVars, cycleVars, fetchVars, sentVars, storeVars>>

----------------------------------------------------------------------------
(* Python values.  A JSON value read from a response is a tagged record;   *)
(* "absent" stands for a key the dict does not have.                       *)

Absent   == [t |-> "absent", n |-> 0, s |-> ""]
None     == [t |-> "none",   n |-> 0, s |-> ""]
Num(n)   == [t |-> "int",    n |-> n, s |-> ""]
\* the JSON number n/10 written with one decimal (57.2 is Dec(572)): a float
Dec(n)   == [t |-> "float",  n |-> n, s |-> ""]
Text(x)  == [t |-> "str",    n |-> 0, s |-> x]

\* dict.get(key, default) on a field that may be absent
Get(v, default) == IF v.t = "absent" THEN default ELSE v

Digit == <<"0", "1", "2", "3", "4", "5", "6", "7", "8", "9">>

RECURSIVE IntToStr(_)
IntToStr(n) ==
    IF n < 10 THEN Digit[n + 1] ELSE IntToStr(n \div 10) \o Digit[(n % 10) + 1]

\* str(v) for the values above
PyStr(v) ==
    CASE v.t = "str"   -> v.s
      [] v.t = "int"   -> IntToStr(v.n)
      [] v.t = "float" -> IntToStr(v.n \div 10) \o "." \o IntToStr(v.n % 10)
      [] v.t = "none"  -> "None"
      [] OTHER         -> ""

\* isinstance(v, (int, float)): a JSON number (Python's bool is an int and is
\* the number it equals)
IsNumber(v) == v.t \in {"int", "float"}

\* Python truthiness of a value
Truthy(v) ==
    CASE v.t = "int"   -> v.n # 0
      [] v.t = "float" -> v.n # 0
      [] v.t = "str"   -> v.s # ""
      [] OTHER       -> FALSE

----------------------------------------------------------------------------
(* Python's float: IEEE 754 binary64.  A float is [m, e], the number m*2^e *)
(* with m a natural number of at most 53 bits; every operation returns the *)
(* exact result rounded to the nearest such number, a tie to the even one. *)
(* m is a sequence of 15-bit limbs, least significant first (<<>> is 0),   *)
(* so that no intermediate value leaves the 32-bit integers.               *)

Min(a, b) == IF a < b THEN a ELSE b

RECURSIVE Pow2(_)
Pow2(k) == IF k = 0 THEN 1 ELSE 2 * Pow2(k - 1)

Limb == Pow2(15)

RECURSIVE BNorm(_)
BNorm(a) ==
    IF a = <<>> THEN <<>>
    ELSE IF a[Len(a)] = 0 THEN BNorm(SubSeq(a, 1, Len(a) - 1)) ELSE a

RECURSIVE BFromInt(_)
BFromInt(n) == IF n = 0 THEN <<>> ELSE <<n % Limb>> \o BFromInt(n \div Limb)

RECURSIVE BToInt(_)
BToInt(a) == IF a = <<>> THEN 0 ELSE a[1] + Limb * BToInt(Tail(a))

RECURSIVE BAddCarry(_, _, _)
BAddCarry(a, b, c) ==
    IF a = <<>> /\ b = <<>> THEN (IF c = 0 THEN <<>> ELSE <<c>>)
    ELSE LET x == IF a = <<>> THEN 0 ELSE a[1]
             y == IF b = <<>> THEN 0 ELSE b[1]
             t == x + y + c
         IN  <<t % Limb>> \o BAddCarry(IF a = <<>> THEN <<>> ELSE Tail(a),
                                       IF b = <<>> THEN <<>> ELSE Tail(b),
                                       t \div Limb)

BAdd(a, b) == BAddCarry(a, b, 0)

RECURSIVE BMulCarry(_, _, _)
BMulCarry(a, k, c) ==
    IF a = <<>> THEN (IF c = 0 THEN <<>> ELSE <<c>>)
    ELSE LET t == a[1] * k + c
         IN  <<t % Limb>> \o BMulCarry(Tail(a), k, t \div Limb)

\* a * k, 0 <= k <= Limb
BMulSmall(a, k) == BNorm(BMulCarry(a, k, 0))

RECURSIVE BDivRem(_, _)
BDivRem(a, d) ==
    IF a = <<>> THEN [q |-> <<>>, r |-> 0]
    ELSE LET hi  == BDivRem(Tail(a), d)
             cur == hi.r * Limb + a[1]
         IN  [q |-> <<cur \div d>> \o hi.q, r |-> cur % d]

\* quotient and remainder of a by d, 0 < d <= Limb
BDivSmall(a, d) == LET x == BDivRem(a, d) IN [q |-> BNorm(x.q), r |-> x.r]

RECURSIVE BitLength(_)
BitLength(n) == IF n = 0 THEN 0 ELSE 1 + BitLength(n \div 2)

BBitLength(a) ==
    IF a = <<>> THEN 0 ELSE 15 * (Len(a) - 1) + BitLength(a[Len(a)])

\* a * 2^k
BShiftLeft(a, k) ==
    IF a = <<>> THEN <<>>
    ELSE [j \in 1..(k \div 15) |-> 0] \o BMulSmall(a, Pow2(k % 15))

\* a \div 2^k, and whether a nonzero bit was dropped
BShiftRight(a, k) ==
    LET nd   == Min(k \div 15, Len(a))
        low  == SubSeq(a, 1, nd)
        high == SubSeq(a, nd + 1, Len(a))
        d    == BDivSmall(high, Pow2(k % 15))
    IN  [q |-> d.q, sticky |-> d.r # 0 \/ \E j \in 1..nd : low[j] # 0]

BIsOdd(a) == a # <<>> /\ a[1] % 2 = 1

\* a / 2^k to the nearest integer, a tie to the even one
BRoundShift(a, k) ==
    IF k = 0 THEN a
    ELSE LET x    == BShiftRight(a, k - 1)
             half == BDivSmall(x.q, 2)
             up   == half.r = 1 /\ (x.sticky \/ BIsOdd(half.q))
         IN  IF up THEN BAdd(half.q, <<1>>) ELSE half.q

\* m*2^e rounded to 53 significant bits
FRound(m, e) ==
    LET n == BBitLength(m)
    IN  IF n <= 53 THEN [m |-> m, e |-> e]
        ELSE [m |-> BRoundShift(m, n - 53), e |-> e + (n - 53)]

\* float(n) of an int n, 0 <= n < 2^31: exact
FFromInt(n) == [m |-> BFromInt(n), e |-> 0]

\* x + y
FAdd(x, y) ==
    LET e == Min(x.e, y.e)
    IN  FRound(BAdd(BShiftLeft(x.m, x.e - e), BShiftLeft(y.m, y.e - e)), e)

\* x / d for an int d, 0 < d <= Limb.  The quotient is taken to 60 bits more
\* than x has, then one bit that says whether a remainder was left: rounding
\* this to 53 bits is rounding the exact quotient.
FDivSmall(x, d) ==
    LET qr == BDivSmall(BShiftLeft(x.m, 60), d)
        m  == BAdd(BShiftLeft(qr.q, 1), IF qr.r # 0 THEN <<1>> ELSE <<>>)
    IN  FRound(m, x.e - 61)

\* round(x, 2), in hundredths: the multiple of 0.01 nearest to the exact
\* value of the float x, a tie to the even one
Round2(x) ==
    LET c == BMulSmall(x.m, 100)
    IN  IF x.e >= 0 THEN BToInt(BShiftLeft(c, x.e))
        ELSE BToInt(BRoundShift(c, 0 - x.e))

\* the float a JSON number is read as, 0 <= v: an int of a breakdown is added
\* exactly (ints below 2^53 are floats), a decimal n/10 is the float nearest
\* to it
ToFloat(v) == IF v.t = "float" THEN FDivSmall(FFromInt(v.n), 10) ELSE FFromInt(v.n)

----------------------------------------------------------------------------
(* _calculate_dominant_sentiment                                           *)

\* the for loop of lines 279-283 over dict items in iteration order, from
\* acc = <<total_sentiment, total_weight>>
RECURSIVE AccumulateCountAllFrom(_, _)
AccumulateCountAllFrom(items, acc) ==
    IF items = <<>> THEN acc
    ELSE LET v == Head(items)[2]
         IN  AccumulateCountAllFrom(Tail(items),
                 <<IF IsNumber(v) THEN FAdd(acc[1], ToFloat(v)) ELSE acc[1], acc[2] + 1>>)

AccumulateCountAll(items) == AccumulateCountAllFrom(items, <<FFromInt(0), 0>>)

RECURSIVE AccumulateFrom(_, _)
AccumulateFrom(items, acc) ==
    IF items = <<>> THEN acc
    ELSE LET v == Head(items)[2]
         IN  AccumulateFrom(Tail(items),
                 IF IsNumber(v) THEN <<FAdd(acc[1], ToFloat(v)), acc[2] + 1>> ELSE acc)

Accumulate(items) == AccumulateFrom(items, <<FFromInt(0), 0>>)

\* the conversion without its "+ 1"
ScaleNoOffset(total, weight) == Round2(FDivSmall(FDivSmall(total, weight), 20))

\* lines 285-288: round((total / weight) / 20 + 1, 2), in hundredths
ScaleUnclamped(total, weight) ==
    Round2(FAdd(FDivSmall(FDivSmall(total, weight), 20), FFromInt(1)))

calculate_dominant_sentiment(sd) ==
    IF sd = <<>> THEN 300
    ELSE LET acc == Accumulate(sd)
         IN  IF acc[2] > 0 THEN ScaleUnclamped(acc[1], acc[2]) ELSE 300

----------------------------------------------------------------------------
(* The values the fetch_* coroutines return: None, a dict (market data or   *)
(* topic data) or a list of posts, in one record shape.                    *)

JNone          == [k |-> "none", price |-> 0, posts |-> <<>>, sd |-> <<>>]
JList(ps)      == [k |-> "list", price |-> 0, posts |-> ps,   sd |-> <<>>]
MarketData(p)  == [k |-> "dict", price |-> p, posts |-> <<>>, sd |-> <<>>]
TopicData(sd)  == [k |-> "dict", price |-> 0, posts |-> <<>>, sd |-> sd]

\* `if x:` on such a value (the dicts of the model have keys)
Falsy(j) == j.k = "none" \/ (j.k = "list" /\ j.posts = <<>>)

----------------------------------------------------------------------------
(* fetch_coin_data, fetch_social_posts, fetch_topic_summary.               *)
(* A response is [outcome, data]: outcome "ok" is a 2xx answer whose JSON  *)
(* body holds `data`; "transport" is an httpx transport error raised by    *)
(* client.get, "status" a non-2xx answer (raise_for_status raises),        *)
(* "badjson" a 2xx answer whose body response.json() cannot parse.         *)

Kinds    == {"market", "posts", "topic"}
Outcomes == {"ok", "transport", "status", "badjson"}

MAX_POSTS_PER_SYMBOL == 100
StopAfterAttempt == 3

\* fetch_coin_data without its except clauses
fetch_coin_data_uncaught(response) ==
    IF response.outcome = "ok"
    THEN [raised |-> FALSE, value |-> response.data]
    ELSE [raised |-> TRUE, value |-> JNone]

\* One run of a function body: [raised, value].
fetch_coin_data(response) ==
    IF response.outcome = "ok"
    THEN [raised |-> FALSE, value |-> response.data]
    ELSE \* except httpx.HTTPError / except Exception: return None
         [raised |-> FALSE, value |-> JNone]

\* fetch_social_posts without the slice of line 76
fetch_social_posts_uncut(response) ==
    IF response.outcome = "ok"
    THEN [raised |-> FALSE, value |-> JList(response.data.posts)]
    ELSE [raised |-> FALSE, value |-> JList(<<>>)]

fetch_social_posts(response) ==
    IF response.outcome = "ok"
    THEN [raised |-> FALSE,
          value  |-> JList(SubSeq(response.data.posts, 1,
                        Min(Len(response.data.posts), MAX_POSTS_PER_SYMBOL)))]
    ELSE \* except httpx.HTTPError / except Exception: return []
         [raised |-> FALSE, value |-> JList(<<>>)]

fetch_topic_summary(response) ==
    IF response.outcome = "ok"
    THEN [raised |-> FALSE, value |-> response.data]
    ELSE \* except Exception: return None
         [raised |-> FALSE, value |-> JNone]

FetchBody(kind, response) ==
    CASE kind = "market" -> fetch_coin_data(response)
      [] kind = "posts"  -> fetch_social_posts(response)
      [] kind = "topic"  -> fetch_topic_summary(response)

\* tenacity's @retry(stop=stop_after_attempt(3), ...) around a body whose
\* attempt number `attempt` has just got `response`: the call returns the
\* body's value, or the body raised and the call is retried (after the
\* exponential wait) or, the attempts used up, raises RetryError.
RetryStep(kind, response, attempt) ==
    LET r == FetchBody(kind, response)
    IN  IF ~r.raised THEN [pc |-> "returned", value |-> r.value]
        ELSE IF attempt >= StopAfterAttempt
             THEN [pc |-> "raised", value |-> JNone]
             ELSE [pc |-> "retry", value |-> JNone]

----------------------------------------------------------------------------
(* Posts.  A post is a dict of which the model keeps the keys id,          *)
(* sentiment, title, body and post_type; any key may be absent.  Title,    *)
(* body and post_type are strings or null where present.                   *)

RichPost(id, sentiment, title, body, post_type) ==
    [id |-> id, sentiment |-> sentiment, title |-> title, body |-> body,
     post_type |-> post_type]

\* a post that has neither title nor body nor post_type
Post(id, sentiment) == RichPost(id, sentiment, Absent, Absent, Absent)

\* s[:n]
Prefix(s, n) == SubSeq(s, 1, Min(Len(s), n))

ContentLimit       == 500      \* post['body'][:500]
BodyLimit          == 1000     \* (post.get("body", "") or "")[:1000]
EmbeddingTextLimit == 500      \* text[:500]

MaxParse == 9

\* float(v), in hundredths: [raised, h].  float(None) raises TypeError and
\* float("n/a") ValueError; a string of digits parses.
PyFloat(v) ==
    CASE v.t = "int" -> [raised |-> FALSE, h |-> 100 * v.n]
      [] v.t = "float" -> [raised |-> FALSE, h |-> 10 * v.n]
      [] v.t = "str" ->
            IF \E n \in 0..MaxParse : IntToStr(n) = v.s
            THEN [raised |-> FALSE,
                  h |-> 100 * (CHOOSE n \in 0..MaxParse : IntToStr(n) = v.s)]
            ELSE [raised |-> TRUE, h |-> 0]
      [] OTHER -> [raised |-> TRUE, h |-> 0]

\* " | ".join(parts)
RECURSIVE Join(_)
Join(parts) ==
    IF Len(parts) = 1 THEN parts[1]
    ELSE parts[1] \o " | " \o Join(Tail(parts))

\* the body cut at 600 characters
prepare_post_for_embedding_600(post, symbol) ==
    Join(<<"Symbol: " \o symbol>>
         \o (IF Truthy(post.title)
             THEN <<"Title: " \o PyStr(post.title)>> ELSE <<>>)
         \o (IF Truthy(post.body)
             THEN <<"Content: " \o Prefix(post.body.s, 600)>> ELSE <<>>)
         \o (IF Truthy(post.sentiment)
             THEN <<"Sentiment: " \o PyStr(post.sentiment)>> ELSE <<>>)
         \o (IF Truthy(post.post_type)
             THEN <<"Type: " \o PyStr(post.post_type)>> ELSE <<>>))

\* lines 104-124
prepare_post_for_embedding(post, symbol) ==
    Join(<<"Symbol: " \o symbol>>
         \o (IF Truthy(post.title)
             THEN <<"Title: " \o PyStr(post.title)>> ELSE <<>>)
         \o (IF Truthy(post.body)
             THEN <<"Content: " \o Prefix(post.body.s, ContentLimit)>> ELSE <<>>)
         \o (IF Truthy(post.sentiment)
             THEN <<"Sentiment: " \o PyStr(post.sentiment)>> ELSE <<>>)
         \o (IF Truthy(post.post_type)
             THEN <<"Type: " \o PyStr(post.post_type)>> ELSE <<>>))

\* line 138: `post_id in self.processed_posts`
NeverProcessed(post_id, processed) == FALSE

\* the test of line 138 with posts that have no id let through
AlreadyProcessedWithId(post_id, processed) == post_id # "" /\ post_id \in processed

AlreadyProcessed(post_id, processed) == post_id \in processed

\* the payload with market_data.get(...) called on whatever market_data is:
\* None has no get
BuildPayloadUnguarded(post, post_id, text, symbol, market_data) ==
    LET f == PyFloat(Get(post.sentiment, Num(3)))
    IN  [raised  |-> f.raised \/ Falsy(market_data),
         payload |-> [symbol         |-> symbol,
                      post_id        |-> post_id,
                      post_type      |-> Get(post.post_type, Text("unknown")),
                      title          |-> Get(post.title, Text("")),
                      body           |-> IF Truthy(post.body)
                                         THEN Prefix(post.body.s, BodyLimit)
                                         ELSE "",
                      sentiment      |-> f.h,
                      market_price   |-> IF Falsy(market_data) THEN None
                                         ELSE Num(market_data.price),
                      embedding_text |-> Prefix(text, EmbeddingTextLimit)]]

\* lines 146-167: the payload, or the exception float() raises
BuildPayload(post, post_id, text, symbol, market_data) ==
    LET f == PyFloat(Get(post.sentiment, Num(3)))
    IN  [raised  |-> f.raised,
         payload |-> [symbol         |-> symbol,
                      post_id        |-> post_id,
                      post_type      |-> Get(post.post_type, Text("unknown")),
                      title          |-> Get(post.title, Text("")),
                      body           |-> IF Truthy(post.body)
                                         THEN Prefix(post.body.s, BodyLimit)
                                         ELSE "",
                      sentiment      |-> f.h,
                      market_price   |-> IF Falsy(market_data) THEN None
                                         ELSE Num(market_data.price),
                      embedding_text |-> Prefix(text, EmbeddingTextLimit)]]

\* the for loop without line 170, the mark of the post as processed
RECURSIVE PostLoopNoMark(_, _, _, _)
PostLoopNoMark(posts, symbol, market_data, st) ==
    IF posts = <<>> \/ st.raised THEN st
    ELSE LET post    == Head(posts)
             post_id == PyStr(Get(post.id, Text("")))
         IN  IF AlreadyProcessed(post_id, st.processed)
             THEN PostLoopNoMark(Tail(posts), symbol, market_data,
                                 [st EXCEPT !.skipped = @ + 1])
             ELSE LET text == prepare_post_for_embedding(post, symbol)
                      b    == BuildPayload(post, post_id, text, symbol, market_data)
                  IN  IF b.raised
                      THEN [st EXCEPT !.raised = TRUE]
                      ELSE PostLoopNoMark(Tail(posts), symbol, market_data,
                             [st EXCEPT !.texts    = Append(@, text),
                                        !.payloads = Append(@, b.payload)])

\* lines 135-170: the for loop, from the state st = [raised, processed,
\* texts, payloads, skipped] over the posts still to visit
RECURSIVE PostLoop(_, _, _, _)
PostLoop(posts, symbol, market_data, st) ==
    IF posts = <<>> \/ st.raised THEN st
    ELSE LET post    == Head(posts)
             post_id == PyStr(Get(post.id, Text("")))
         IN  IF AlreadyProcessed(post_id, st.processed)
             THEN PostLoop(Tail(posts), symbol, market_data,
                           [st EXCEPT !.skipped = @ + 1])
             ELSE LET text == prepare_post_for_embedding(post, symbol)
                      b    == BuildPayload(post, post_id, text, symbol, market_data)
                  IN  IF b.raised
                      THEN [st EXCEPT !.raised = TRUE]
                      ELSE PostLoop(Tail(posts), symbol, market_data,
                             [st EXCEPT !.texts     = Append(@, text),
                                        !.payloads  = Append(@, b.payload),
                                        !.processed = @ \cup {post_id}])

RECURSIVE SeqToBag(_)
SeqToBag(sq) ==
    IF sq = <<>> THEN EmptyBag ELSE SetToBag({Head(sq)}) (+) SeqToBag(Tail(sq))

\* What a processing call did.  raised: "none", or where the exception that
\* left the call was raised ("payload", "encode").
NoCall ==
    [op |-> "none", symbol |-> "", posts |-> <<>>, raised |-> "none",
     skipped |-> 0, encoded |-> 0, texts |-> <<>>, sent |-> <<>>,
     upserts |-> 0, stored |-> FALSE]

\* process_and_store_posts without the try/except of lines 193-201 around
\* the upsert: the exception of a failed upsert leaves the call
process_and_store_posts_unguarded(posts, symbol, market_data, processed, coll, encode_ok, upsert_ok) ==
    LET call == [NoCall EXCEPT !.op = "posts", !.symbol = symbol, !.posts = posts]
    IN
    IF posts = <<>> THEN [processed |-> processed, coll |-> coll, call |-> call]
    ELSE
    LET st == PostLoop(posts, symbol, market_data,
                [raised |-> FALSE, processed |-> processed, texts |-> <<>>,
                 payloads |-> <<>>, skipped |-> 0])
    IN  IF st.raised
        THEN [processed |-> st.processed, coll |-> coll,
              call |-> [call EXCEPT !.raised = "payload", !.skipped = st.skipped]]
        ELSE IF st.payloads = <<>>
        THEN [processed |-> st.processed, coll |-> coll,
              call |-> [call EXCEPT !.skipped = st.skipped]]
        ELSE IF ~encode_ok
        THEN [processed |-> st.processed, coll |-> coll,
              call |-> [call EXCEPT !.raised = "encode", !.skipped = st.skipped,
                                    !.encoded = Len(st.payloads),
                                    !.texts   = st.texts]]
        ELSE [processed |-> st.processed,
              coll      |-> IF upsert_ok THEN coll (+) SeqToBag(st.payloads)
                            ELSE coll,
              call      |-> [call EXCEPT !.skipped = st.skipped,
                                         !.raised  = IF upsert_ok THEN "none"
                                                     ELSE "upsert",
                                         !.encoded = Len(st.payloads),
                                         !.texts   = st.texts,
                                         !.sent    = st.payloads,
                                         !.upserts = 1,
                                         !.stored  = upsert_ok]]

\* process_and_store_posts that takes the marks of a call back when the
\* call raises or its upsert fails
process_and_store_posts_rollback(posts, symbol, market_data, processed, coll, encode_ok, upsert_ok) ==
    LET call == [NoCall EXCEPT !.op = "posts", !.symbol = symbol, !.posts = posts]
    IN
    IF posts = <<>> THEN [processed |-> processed, coll |-> coll, call |-> call]
    ELSE
    LET st == PostLoop(posts, symbol, market_data,
                [raised |-> FALSE, processed |-> processed, texts |-> <<>>,
                 payloads |-> <<>>, skipped |-> 0])
    IN  IF st.raised
        THEN [processed |-> processed, coll |-> coll,
              call |-> [call EXCEPT !.raised = "payload", !.skipped = st.skipped]]
        ELSE IF st.payloads = <<>>
        THEN [processed |-> st.processed, coll |-> coll,
              call |-> [call EXCEPT !.skipped = st.skipped]]
        ELSE IF ~encode_ok
        THEN [processed |-> processed, coll |-> coll,
              call |-> [call EXCEPT !.raised = "encode", !.skipped = st.skipped,
                                    !.encoded = Len(st.payloads),
                                    !.texts   = st.texts]]
        ELSE [processed |-> IF upsert_ok THEN st.processed ELSE processed,
              coll      |-> IF upsert_ok THEN coll (+) SeqToBag(st.payloads)
                            ELSE coll,
              call      |-> [call EXCEPT !.skipped = st.skipped,
                                         !.encoded = Len(st.payloads),
                                         !.texts   = st.texts,
                                         !.sent    = st.payloads,
                                         !.upserts = 1,
                                         !.stored  = upsert_ok]]

\* process_and_store_posts, lines 126-201.  encode_ok: self.encoder.encode
\* returns (else it raises); upsert_ok: self.qdrant.upsert returns (else it
\* raises).  Every point gets a new uuid4 id, so a successful upsert adds its
\* points to the collection.  The result: the new processed_posts, the new
\* posts collection and the record of the call.
process_and_store_posts(posts, symbol, market_data, processed, coll, encode_ok, upsert_ok) ==
    LET call == [NoCall EXCEPT !.op = "posts", !.symbol = symbol, !.posts = posts]
    IN
    IF posts = <<>> THEN [processed |-> processed, coll |-> coll, call |-> call]
    ELSE
    LET st == PostLoop(posts, symbol, market_data,
                [raised |-> FALSE, processed |-> processed, texts |-> <<>>,
                 payloads |-> <<>>, skipped |-> 0])
    IN  IF st.raised
        THEN [processed |-> st.processed, coll |-> coll,
              call |-> [call EXCEPT !.raised = "payload", !.skipped = st.skipped]]
        ELSE IF st.payloads = <<>>
        THEN [processed |-> st.processed, coll |-> coll,
              call |-> [call EXCEPT !.skipped = st.skipped]]
        ELSE IF ~encode_ok
        THEN [processed |-> st.processed, coll |-> coll,
              call |-> [call EXCEPT !.raised = "encode", !.skipped = st.skipped,
                                    !.encoded = Len(st.payloads),
                                    !.texts   = st.texts]]
        ELSE [processed |-> st.processed,
              coll      |-> IF upsert_ok THEN coll (+) SeqToBag(st.payloads)
                            ELSE coll,
              call      |-> [call EXCEPT !.skipped = st.skipped,
                                         !.encoded = Len(st.payloads),
                                         !.texts   = st.texts,
                                         !.sent    = st.payloads,
                                         !.upserts = 1,
                                         !.stored  = upsert_ok]]

\* process_topic_summary with a point id made from the symbol instead of
\* uuid4(): the upsert replaces the symbol's earlier point
process_topic_summary_keyed(symbol, topic_data, market_data, coll, encode_ok, upsert_ok) ==
    LET call == [NoCall EXCEPT !.op = "topic", !.symbol = symbol]
    IN
    IF Falsy(topic_data) THEN [coll |-> coll, call |-> call]
    ELSE IF ~encode_ok
    THEN [coll |-> coll, call |-> [call EXCEPT !.raised = "encode", !.encoded = 1]]
    ELSE LET payload ==
                 [symbol              |-> symbol,
                  sentiment_breakdown |-> topic_data.sd,
                  dominant_sentiment  |-> calculate_dominant_sentiment(topic_data.sd),
                  market_price        |-> IF Falsy(market_data) THEN None
                                          ELSE Num(market_data.price)]
             others == {p \in BagToSet(coll) : p.symbol # symbol}
         IN  [coll |-> IF upsert_ok
                       THEN [p \in others |-> coll[p]] (+) SetToBag({payload})
                       ELSE coll,
              call |-> [call EXCEPT !.encoded = 1, !.upserts = 1,
                                    !.stored = upsert_ok]]

\* process_topic_summary, lines 203-269
process_topic_summary(symbol, topic_data, market_data, coll, encode_ok, upsert_ok) ==
    LET call == [NoCall EXCEPT !.op = "topic", !.symbol = symbol]
    IN
    IF Falsy(topic_data) THEN [coll |-> coll, call |-> call]
    ELSE IF ~encode_ok
    THEN [coll |-> coll, call |-> [call EXCEPT !.raised = "encode", !.encoded = 1]]
    ELSE LET payload ==
                 [symbol              |-> symbol,
                  sentiment_breakdown |-> topic_data.sd,
                  dominant_sentiment  |-> calculate_dominant_sentiment(topic_data.sd),
                  market_price        |-> IF Falsy(market_data) THEN None
                                          ELSE Num(market_data.price)]
         IN  [coll |-> IF upsert_ok THEN coll (+) SetToBag({payload}) ELSE coll,
              call |-> [call EXCEPT !.encoded = 1, !.upserts = 1,
                                    !.stored = upsert_ok]]

----------------------------------------------------------------------------
(* get_ingestion_stats.  A call is recorded as [n, raised, unavailable,    *)
(* report]: n counts the calls, unavailable holds the collections whose    *)
(* get_collection raised, report is the dict returned.                     *)

COLLECTION_POSTS  == "market_posts"

COLLECTION_TOPICS == "topic_summaries"

\* lines 339-343: the entry of a collection Qdrant describes; each point
\* holds one vector
CollectionInfo(coll) ==
    [error |-> FALSE, vectors_count |-> BagCardinality(coll),
     points_count |-> BagCardinality(coll), status |-> "green"]

\* line 345: {"error": str(e)}
ErrorEntry == [error |-> TRUE, vectors_count |-> 0, points_count |-> 0, status |-> ""]

NoStats ==
    [n |-> 0, raised |-> FALSE, unavailable |-> {},
     report |-> [market_posts |-> ErrorEntry, topic_summaries |-> ErrorEntry,
                 processed_posts |-> 0]]

\* get_ingestion_stats without the try/except of lines 337-345: the
\* exception of get_collection leaves the call
get_ingestion_stats_unguarded(prev, processed, posts_coll, topics_coll, unavailable) ==
    [n           |-> prev.n + 1,
     raised      |-> unavailable # {},
     unavailable |-> unavailable,
     report      |->
        IF unavailable # {} THEN NoStats.report
        ELSE [market_posts    |-> CollectionInfo(posts_coll),
              topic_summaries |-> CollectionInfo(topics_coll),
              processed_posts |-> Cardinality(processed)]]

\* lines 332-349, called after the call recorded in prev
get_ingestion_stats(prev, processed, posts_coll, topics_coll, unavailable) ==
    [n           |-> prev.n + 1,
     raised      |-> FALSE,
     unavailable |-> unavailable,
     report      |->
        [market_posts    |-> IF COLLECTION_POSTS \in unavailable THEN ErrorEntry
                             ELSE CollectionInfo(posts_coll),
         topic_summaries |-> IF COLLECTION_TOPICS \in unavailable THEN ErrorEntry
                             ELSE CollectionInfo(topics_coll),
         processed_posts |-> Cardinality(processed)]]

----------------------------------------------------------------------------
(* The vector size of the collections.  settings.EMBEDDING_MODEL is         *)
(* BAAI/bge-large-en-v1.5, whose vectors have 1024 components;              *)
(* init_collections.py creates the collections with VECTOR_DIMENSION        *)
(* (default 1536) and fix_dimensions.py re-creates them with 1024.  Qdrant  *)
(* rejects an upsert whose vectors are not of the collection's size.        *)

EMBEDDING_DIM == 1024

VECTOR_DIMENSION == 1536

VectorSizes == {EMBEDDING_DIM, VECTOR_DIMENSION}

\* self.qdrant.upsert(...) returns (else it raises)
UpsertAccepted(size, store_ok) == store_ok /\ size = EMBEDDING_DIM

----------------------------------------------------------------------------
(* MarketDBVectorStore (vector_store.py)                                   *)

\* What a call of the gateway did.  ret: the value returned ("none" when
\* the call raised or returns hits); built: the points were built; upserts:
\* calls of client.upsert made; written: the upsert returned; args: the
\* symbol and sentiment_min of a search; filtered: a query_filter other than
\* None was handed to client.search, and filter holds its conditions.
NoStoreCall ==
    [op |-> "none", raised |-> FALSE, ret |-> "none", built |-> FALSE,
     upserts |-> 0, written |-> FALSE, args |-> <<>>, filter |-> <<>>,
     filtered |-> FALSE, hits |-> {}]

\* a post handed to add_market_posts: the keys id, sentiment and text
StorePost(id, sentiment, text) == [id |-> id, sentiment |-> sentiment, text |-> text]

TextLimit == 1000      \* post.get("text", "")[:1000]

\* lines 36-38: what the point id is the md5 of, the time apart
PointKey(post, idx, symbol) == PyStr(Get(post.id, Num(idx))) \o "_" \o symbol

\* lines 40-54: the point of a post, or the TypeError of slicing a text that
\* is not a string
BuildPoint(post, idx, symbol) ==
    LET text == Get(post.text, Text(""))
    IN  [raised |-> text.t # "str",
         key    |-> PointKey(post, idx, symbol),
         payload |-> [symbol    |-> symbol,
                      sentiment |-> Get(post.sentiment, Num(3)),
                      post_id   |-> PyStr(Get(post.id, Text(""))),
                      text      |-> IF text.t = "str" THEN Prefix(text.s, TextLimit)
                                    ELSE ""]]

\* lines 33-55: the points of the posts, from index idx on
RECURSIVE BuildPoints(_, _, _)
BuildPoints(posts, idx, symbol) ==
    IF posts = <<>> THEN [raised |-> FALSE, points |-> <<>>]
    ELSE LET b == BuildPoint(Head(posts), idx, symbol)
         IN  IF b.raised THEN [raised |-> TRUE, points |-> <<>>]
             ELSE LET rest == BuildPoints(Tail(posts), idx + 1, symbol)
                  IN  [raised |-> rest.raised,
                       points |-> IF rest.raised THEN <<>>
                                  ELSE <<b>> \o rest.points]

\* The payloads an accepted upsert of the points adds.  A point's id is the
\* md5 of its key and datetime.utcnow(): two points of one batch with the
\* same key get the same id when built within one tick of the clock
\* (same_tick), and the later one replaces the earlier.
RECURSIVE Upserted(_, _)
Upserted(points, same_tick) ==
    IF points = <<>> THEN EmptyBag
    ELSE LET pt == Head(points)
             replaced == same_tick /\ \E k \in 2..Len(points) : points[k].key = pt.key
         IN  (IF replaced THEN EmptyBag ELSE SetToBag({pt.payload}))
             (+) Upserted(Tail(points), same_tick)

\* add_market_posts without its try/except
add_market_posts_unguarded(posts, symbol, coll, upsert_ok, same_tick) ==
    LET b    == BuildPoints(posts, 0, symbol)
        call == [NoStoreCall EXCEPT !.op = "add"]
    IN  IF b.raised
        THEN [coll |-> coll, call |-> [call EXCEPT !.raised = TRUE]]
        ELSE IF ~upsert_ok
        THEN [coll |-> coll,
              call |-> [call EXCEPT !.raised = TRUE, !.built = TRUE, !.upserts = 1]]
        ELSE [coll |-> coll (+) Upserted(b.points, same_tick),
              call |-> [call EXCEPT !.built = TRUE, !.upserts = 1,
                                    !.written = TRUE, !.ret = "True"]]

\* add_market_posts, lines 25-69.  upsert_ok: self.client.upsert returns
\* (else it raises).  The result: the new collection and the record of the
\* call.
add_market_posts(posts, symbol, coll, upsert_ok, same_tick) ==
    LET b    == BuildPoints(posts, 0, symbol)
        call == [NoStoreCall EXCEPT !.op = "add"]
    IN  IF b.raised
        THEN \* except Exception: return False
             [coll |-> coll, call |-> [call EXCEPT !.ret = "False"]]
        ELSE IF ~upsert_ok
        THEN [coll |-> coll,
              call |-> [call EXCEPT !.built = TRUE, !.upserts = 1, !.ret = "False"]]
        ELSE [coll |-> coll (+) Upserted(b.points, same_tick),
              call |-> [call EXCEPT !.built = TRUE, !.upserts = 1,
                                    !.written = TRUE, !.ret = "True"]]

\* a filter condition: FieldCondition(key=..., match=MatchValue(value=...))
\* or FieldCondition(key=..., range=Range(gte=...))
MatchCondition(key, value) == [key |-> key, op |-> "match", value |-> value]
RangeCondition(key, gte)   == [key |-> key, op |-> "gte",   value |-> gte]

\* lines 80-97: the conditions `if symbol:` and `if sentiment_min:` add
Conditions(symbol, sentiment_min) ==
    (IF Truthy(symbol) THEN <<MatchCondition("symbol", symbol)>> ELSE <<>>)
    \o (IF Truthy(sentiment_min)
        THEN <<RangeCondition("sentiment", sentiment_min)>> ELSE <<>>)

\* the store's test of a payload against one condition
Satisfies(payload, cond) ==
    IF cond.key = "symbol" THEN Text(payload.symbol) = cond.value
    ELSE payload.sentiment.t = "int" /\ payload.sentiment.n >= cond.value.n

\* search_similar_posts, lines 71-117: the filter handed to client.search
\* (None when there is no condition) and the payloads of the hits; the
\* collections of the model hold fewer points than `limit`
search_similar_posts(symbol, sentiment_min, coll) ==
    LET conditions == Conditions(symbol, sentiment_min)
    IN  [NoStoreCall EXCEPT
           !.op = "search",
           !.ret = "hits",
           !.args = <<symbol, sentiment_min>>,
           !.filter = conditions,
           !.filtered = conditions # <<>>,
           !.hits = {p \in BagToSet(coll) :
                       \A k \in 1..Len(conditions) : Satisfies(p, conditions[k])}]

----------------------------------------------------------------------------
(* Bounds and input sets                                                   *)

MaxEntries == 2     \* entries of a sentiment breakdown
MaxCalls   == 3     \* processing calls on one ingestor

Platforms == {"a", "b", "c"}

SentimentValues ==
    {Num(0), Num(40), Num(60), Num(80), Num(100), Text("n/a"), None}

\* dicts of at most n entries, as item sequences in iteration order
RECURSIVE Breakdowns(_)
Breakdowns(n) ==
    IF n = 0 THEN {<<>>}
    ELSE LET shorter == Breakdowns(n - 1)
         IN  shorter \cup
             {Append(d, <<p, v>>) :
                 d \in {x \in shorter : Len(x) = n - 1},
                 p \in Platforms, v \in SentimentValues}

Keys(d) == {d[k][1] : k \in 1..Len(d)}

IsDict(d) == Cardinality(Keys(d)) = Len(d)

Symbols == {"BTC", "ETH"}

\* the post lists the calls are made with: the empty list; two new posts, one
\* without sentiment and one without id; a post whose id is "1" as a string;
\* a post following a good one whose sentiment is null; a post whose sentiment
\* is not a number; a post twice in one list; a post whose sentiment is a
\* string of digits
PostLists ==
    {<<>>,
     <<Post(Num(1), Absent), Post(Absent, Num(4))>>,
     <<Post(Text("1"), Num(4))>>,
     <<Post(Num(2), Num(0)), Post(Num(3), None)>>,
     <<Post(Num(2), Text("n/a"))>>,
     <<Post(Num(3), Absent), Post(Num(3), Absent)>>,
     <<Post(Absent, Text("5"))>>}

Markets == {JNone, MarketData(7)}

Topics == {JNone, TopicData(<<<<"a", Num(80)>>, <<"b", Num(60)>>>>)}

\* what the encoder and the store do during one processing call
Envs == {"ok", "encode_fails", "upsert_fails"}

----------------------------------------------------------------------------
(* Initial values                                                          *)

IngestorInit ==
    /\ processed_posts = {}
    /\ market_posts = EmptyBag
    /\ topic_summaries = EmptyBag
    /\ vector_size = EMBEDDING_DIM
    /\ last = NoCall
    /\ ncalls = 0
    /\ stats = NoStats

CycleOff ==
    /\ symbols_arg = <<>>
    /\ symbols = <<>>
    /\ pc = "off"
    /\ i = 0
    /\ task = <<>>
    /\ waves = <<>>
    /\ sleeps = 0
    /\ cycle = 0

FetchOff ==
    /\ f_kind = "market"
    /\ f_symbol = ""
    /\ f_source = JNone
    /\ f_plan = <<>>
    /\ f_pc = "off"
    /\ f_requests = 0
    /\ f_result = JNone

SentOff ==
    /\ sentiment_data = <<>>
    /\ ds_pc = "off"
    /\ dominant = 0

StoreOff ==
    /\ vs_last = NoStoreCall
    /\ vs_calls = 0

----------------------------------------------------------------------------
(* SpecSent: _calculate_dominant_sentiment on every breakdown              *)

InitSent ==
    /\ IngestorInit /\ CycleOff /\ FetchOff /\ StoreOff
    /\ sentiment_data \in {d \in Breakdowns(MaxEntries) : IsDict(d)}
    /\ ds_pc = "idle"
    /\ dominant = 0

CalcDominantSentiment ==
    /\ ds_pc = "idle"
    /\ dominant' = calculate_dominant_sentiment(sentiment_data)
    /\ ds_pc' = "returned"
    /\ UNCHANGED <<sentiment_data, ingestorVars, cycleVars, fetchVars, storeVars>>

NextSent == CalcDominantSentiment

SpecSent == InitSent /\ [][NextSent]_vars

----------------------------------------------------------------------------
(* SpecOrder: _calculate_dominant_sentiment on breakdowns whose values are *)
(* also JSON numbers with a decimal part, each in every iteration order    *)

MaxOrderEntries == 3

OrderValues == {Dec(572), Dec(181), Dec(354), Num(80), Text("n/a")}

RECURSIVE OrderBreakdowns(_)
OrderBreakdowns(n) ==
    IF n = 0 THEN {<<>>}
    ELSE LET shorter == OrderBreakdowns(n - 1)
         IN  shorter \cup
             {Append(d, <<p, v>>) :
                 d \in {x \in shorter : Len(x) = n - 1},
                 p \in Platforms, v \in OrderValues}

InitOrder ==
    /\ IngestorInit /\ CycleOff /\ FetchOff /\ StoreOff
    /\ sentiment_data \in {d \in OrderBreakdowns(MaxOrderEntries) : IsDict(d)}
    /\ ds_pc = "idle"
    /\ dominant = 0

SpecOrder == InitOrder /\ [][NextSent]_vars

----------------------------------------------------------------------------
(* SpecFetch: one call of a decorated fetch_* coroutine.  f_plan is what   *)
(* the network will answer to the first, second and third request.         *)

\* what the source holds for a symbol: a market snapshot, a topic summary, and
\* two posts, one of the symbol's own and one (id 7) listed under every symbol
SourceData(kind, symbol) ==
    CASE kind = "market" -> MarketData(7)
      [] kind = "posts"  -> JList(<<Post(Text(symbol), Absent), Post(Num(7), Num(4))>>)
      [] kind = "topic"  -> TopicData(<<<<"twitter", Num(90)>>, <<"reddit", Num(70)>>>>)

\* a list of n posts, with ids 1..n
NumberedPosts(n) == [k \in 1..n |-> Post(Num(k), Absent)]

\* lengths of the post lists the source may hold
SourceSizes == {0, 1, 99, 100, 101, 150}

\* what the source may hold when a fetch of `kind` is made for `symbol`
Sources(kind, symbol) ==
    {SourceData(kind, symbol)} \cup
    (IF kind = "posts" THEN {JList(NumberedPosts(n)) : n \in SourceSizes}
     ELSE {})

\* the answer to a request when the source holds `data`
ResponseOf(outcome, data) ==
    [outcome |-> outcome, data |-> IF outcome = "ok" THEN data ELSE JNone]

Response(outcome, kind, symbol) == ResponseOf(outcome, SourceData(kind, symbol))

InitFetch ==
    /\ IngestorInit /\ CycleOff /\ SentOff /\ StoreOff
    /\ f_kind \in Kinds
    /\ f_symbol \in Symbols
    /\ f_source \in Sources(f_kind, f_symbol)
    /\ f_plan \in [1..StopAfterAttempt -> Outcomes]
    /\ f_pc = "idle"
    /\ f_requests = 0
    /\ f_result = JNone

\* the call starts: the body runs to `await client.get(...)`
FetchCall ==
    /\ f_pc = "idle"
    /\ f_pc' = "awaiting"
    /\ f_requests' = 1
    /\ UNCHANGED <<f_kind, f_symbol, f_source, f_plan, f_result>>
    /\ UNCHANGED <<ingestorVars, cycleVars, sentVars, storeVars>>

\* the answer to the pending request arrives: the body finishes and the
\* retry wrapper returns, retries or gives up
FetchResponse ==
    /\ f_pc = "awaiting"
    /\ LET step == RetryStep(f_kind,
                     ResponseOf(f_plan[f_requests], f_source), f_requests)
       IN  IF step.pc = "retry"
           THEN /\ f_requests' = f_requests + 1
                /\ UNCHANGED <<f_pc, f_result>>
           ELSE /\ f_pc' = step.pc
                /\ f_result' = step.value
                /\ UNCHANGED f_requests
    /\ UNCHANGED <<f_kind, f_symbol, f_source, f_plan>>
    /\ UNCHANGED <<ingestorVars, cycleVars, sentVars, storeVars>>

NextFetch == FetchCall \/ FetchResponse

SpecFetch == InitFetch /\ [][NextFetch]_vars

----------------------------------------------------------------------------
(* Spec: one ingestor, any sequence of processing calls                    *)

Init == IngestorInit /\ CycleOff /\ FetchOff /\ SentOff /\ StoreOff

CallProcessAndStorePosts(posts, symbol, market_data, encode_ok, upsert_ok) ==
    /\ ncalls < MaxCalls
    /\ LET r == process_and_store_posts(posts, symbol, market_data,
                    processed_posts, market_posts, encode_ok,
                    UpsertAccepted(vector_size, upsert_ok))
       IN  /\ processed_posts' = r.processed
           /\ market_posts' = r.coll
           /\ last' = r.call
    /\ ncalls' = ncalls + 1
    /\ UNCHANGED <<topic_summaries, vector_size, stats>>
    /\ UNCHANGED <<cycleVars, fetchVars, sentVars, storeVars>>

CallProcessTopicSummary(symbol, topic_data, market_data, encode_ok, upsert_ok) ==
    /\ ncalls < MaxCalls
    /\ LET r == process_topic_summary(symbol, topic_data, market_data,
                    topic_summaries, encode_ok,
                    UpsertAccepted(vector_size, upsert_ok))
       IN  /\ topic_summaries' = r.coll
           /\ last' = r.call
    /\ ncalls' = ncalls + 1
    /\ UNCHANGED <<processed_posts, market_posts, vector_size, stats>>
    /\ UNCHANGED <<cycleVars, fetchVars, sentVars, storeVars>>

Next ==
    \/ \E posts \in PostLists, symbol \in Symbols, market_data \in Markets,
          env \in Envs :
          CallProcessAndStorePosts(posts, symbol, market_data,
                                   env # "encode_fails", env # "upsert_fails")
    \/ \E symbol \in Symbols, topic_data \in Topics, market_data \in Markets,
          env \in Envs :
          CallProcessTopicSummary(symbol, topic_data, market_data,
                                  env # "encode_fails", env # "upsert_fails")

Spec == Init /\ [][Next]_vars

----------------------------------------------------------------------------
(* SpecCycle: one ingest_all_symbols cycle on the asyncio event loop.      *)
(* Coroutines run without interruption between two awaits, so a step is    *)
(* what runs between two suspension points.  process_and_store_posts and   *)
(* process_topic_summary hold no await that suspends: they run in the step *)
(* that follows the gather of the three fetches.                           *)

MaxSymbols == 7     \* length of the symbol list

DEFAULT_SYMBOLS == <<"BTC", "ETH", "SOL", "AVAX", "MATIC">>

AllSymbols ==
    <<"BTC", "ETH", "SOL", "AVAX", "MATIC", "DOGE", "ADA", "XRP", "DOT">>

WaveSize == 3

\* the symbols during whose task requests, source data, the encoder or the
\* store may fail
FaultySymbols == {"AVAX"}

NoFetch      == [st |-> "idle",    requests |-> 0, value |-> JNone]
PendingFetch == [st |-> "pending", requests |-> 1, value |-> JNone]

\* what is kept of a processing call made by a task
CallOutcome(call) ==
    [op |-> call.op, raised |-> call.raised, encoded |-> call.encoded,
     upserts |-> call.upserts, stored |-> call.stored]

\* pcall, tcall: the task's calls of process_and_store_posts and
\* process_topic_summary
NotStarted ==
    [st |-> "none", wave |-> 0, processed |-> FALSE,
     market |-> NoFetch, posts |-> NoFetch, topic |-> NoFetch,
     pcall |-> CallOutcome(NoCall), tcall |-> CallOutcome(NoCall)]

\* the source's answer to a posts request that is a data fault: a post whose
\* sentiment is null follows a good one
FaultyPosts(symbol) == JList(<<Post(Text(symbol), Absent), Post(Num(8), None)>>)

InitCycle ==
    /\ IngestorInit /\ FetchOff /\ SentOff /\ StoreOff
    /\ symbols_arg \in {SubSeq(AllSymbols, 1, n) : n \in 0..MaxSymbols}
    /\ symbols = symbols_arg
    /\ pc = "idle"
    /\ i = 0
    /\ task = <<>>
    /\ waves = <<>>
    /\ sleeps = 0
    /\ cycle = 1

StartCycleNoDefault ==
    /\ pc = "idle"
    /\ symbols' = symbols
    /\ task' = [k \in 1..Len(symbols') |-> NotStarted]
    /\ pc' = "loop"
    /\ UNCHANGED <<symbols_arg, i, waves, sleeps, cycle, ingestorVars, fetchVars, sentVars, storeVars>>

\* line 316: symbols = symbols or settings.DEFAULT_SYMBOLS
StartCycle ==
    /\ pc = "idle"
    /\ symbols' = IF symbols = <<>> THEN DEFAULT_SYMBOLS ELSE symbols
    /\ task' = [k \in 1..Len(symbols') |-> NotStarted]
    /\ pc' = "loop"
    /\ UNCHANGED <<symbols_arg, i, waves, sleeps, cycle, ingestorVars, fetchVars, sentVars, storeVars>>

\* symbols[i:i+4]
BatchOfFour(syms, j) == j + 1 .. Min(j + 4, Len(syms))

\* line 322: batch = symbols[i:i+3], as the indices of its symbols
Batch(syms, j) == j + 1 .. Min(j + WaveSize, Len(syms))

\* lines 322-324 up to the await: the tasks of the batch are created; on the
\* loop each runs to its gather, and its three fetches to their client.get
LaunchWave ==
    /\ pc = "loop"
    /\ i < Len(symbols)
    /\ LET b == Batch(symbols, i)
       IN  /\ task' = [k \in DOMAIN task |->
                         IF k \in b
                         THEN [NotStarted EXCEPT
                                 !.st = "running", !.wave = Len(waves) + 1,
                                 !.market = PendingFetch,
                                 !.posts = PendingFetch, !.topic = PendingFetch]
                         ELSE task[k]]
           /\ waves' = Append(waves, [k \in 1..Cardinality(b) |-> symbols[i + k]])
    /\ pc' = "wave"
    /\ UNCHANGED <<symbols_arg, symbols, i, sleeps, cycle, ingestorVars, fetchVars, sentVars, storeVars>>

FetchOf(t, kind) ==
    CASE kind = "market" -> t.market
      [] kind = "posts"  -> t.posts
      [] kind = "topic"  -> t.topic

WithFetch(t, kind, f) ==
    CASE kind = "market" -> [t EXCEPT !.market = f]
      [] kind = "posts"  -> [t EXCEPT !.posts = f]
      [] kind = "topic"  -> [t EXCEPT !.topic = f]

\* the answer to the pending request of one fetch of task k arrives
TaskFetchResponse(k, kind, response, fault) ==
    /\ k \in DOMAIN task
    /\ task[k].st = "running"
    /\ FetchOf(task[k], kind).st = "pending"
    /\ fault => symbols[k] \in FaultySymbols
    /\ LET f    == FetchOf(task[k], kind)
           step == RetryStep(kind, response, f.requests)
       IN  task' = [task EXCEPT ![k] =
              CASE step.pc = "returned" ->
                     WithFetch(@, kind, [f EXCEPT !.st = "resolved",
                                                  !.value = step.value])
                [] step.pc = "retry" ->
                     WithFetch(@, kind, [f EXCEPT !.requests = @ + 1])
                [] OTHER -> \* RetryError leaves the gather of line 303
                     [WithFetch(@, kind, [f EXCEPT !.st = "raised"])
                        EXCEPT !.st = "failed"]]
    /\ UNCHANGED <<symbols_arg, symbols, pc, i, waves, sleeps, cycle, ingestorVars, fetchVars, sentVars, storeVars>>

\* the task goes on once its posts are there
PostsResolved(t) == t.posts.st = "resolved"

\* line 303: await asyncio.gather(*tasks) returns
GatherDone(t) ==
    /\ t.market.st = "resolved"
    /\ t.posts.st = "resolved"
    /\ t.topic.st = "resolved"

\* lines 305-312: the rest of ingest_symbol, one step of the loop
TaskProcess(k, env_posts, env_topic) ==
    /\ k \in DOMAIN task
    /\ task[k].st = "running"
    /\ GatherDone(task[k])
    /\ (env_posts # "ok" \/ env_topic # "ok") => symbols[k] \in FaultySymbols
    /\ LET t  == task[k]
           rp == process_and_store_posts(t.posts.value.posts, symbols[k],
                     t.market.value, processed_posts, market_posts,
                     env_posts # "encode_fails",
                     UpsertAccepted(vector_size, env_posts # "upsert_fails"))
           do_posts == ~Falsy(t.posts.value)
           posts_raised == do_posts /\ rp.call.raised # "none"
           do_topic == ~posts_raised /\ ~Falsy(t.topic.value)
           rt == process_topic_summary(symbols[k], t.topic.value,
                     t.market.value, topic_summaries,
                     env_topic # "encode_fails",
                     UpsertAccepted(vector_size, env_topic # "upsert_fails"))
           topic_raised == do_topic /\ rt.call.raised # "none"
       IN  /\ processed_posts' = IF do_posts THEN rp.processed ELSE processed_posts
           /\ market_posts' = IF do_posts THEN rp.coll ELSE market_posts
           /\ topic_summaries' = IF do_topic THEN rt.coll ELSE topic_summaries
           /\ task' = [task EXCEPT ![k].processed = TRUE,
                                   ![k].pcall = IF do_posts THEN CallOutcome(rp.call)
                                                ELSE @,
                                   ![k].tcall = IF do_topic THEN CallOutcome(rt.call)
                                                ELSE @,
                                   ![k].st = IF posts_raised \/ topic_raised
                                             THEN "failed" ELSE "done"]
    /\ UNCHANGED <<symbols_arg, symbols, pc, i, waves, sleeps, cycle, vector_size, last, ncalls, stats>>
    /\ UNCHANGED <<fetchVars, sentVars, storeVars>>

CurrentWave == {k \in DOMAIN task : task[k].wave = Len(waves)}

\* the gather returns as soon as one task of the wave is done
FirstCompleted(ts, wave) == \E k \in wave : ts[k].st = "done"

\* line 324: await asyncio.gather(*tasks) returns
WaveJoined(ts, wave) == \A k \in wave : ts[k].st = "done"

\* the gather of the wave returns and the delay follows whether or not the
\* wave was the last
WaveJoinAlwaysSleeps ==
    /\ pc = "wave"
    /\ WaveJoined(task, CurrentWave)
    /\ IF i + WaveSize < Len(symbols)
       THEN pc' = "sleep" /\ sleeps' = sleeps + 1
       ELSE pc' = "done" /\ sleeps' = sleeps + 1
    /\ UNCHANGED <<symbols_arg, symbols, i, task, waves, cycle, ingestorVars, fetchVars, sentVars, storeVars>>

\* lines 324-330: the gather of the wave returns; a delay follows unless the
\* wave was the last, and then the cycle is complete
WaveJoin ==
    /\ pc = "wave"
    /\ WaveJoined(task, CurrentWave)
    /\ IF i + WaveSize < Len(symbols)
       THEN pc' = "sleep" /\ sleeps' = sleeps + 1
       ELSE pc' = "done" /\ UNCHANGED sleeps
    /\ UNCHANGED <<symbols_arg, symbols, i, task, waves, cycle, ingestorVars, fetchVars, sentVars, storeVars>>

\* line 328: asyncio.sleep(2) returns and the loop takes its next index
SleepDone ==
    /\ pc = "sleep"
    /\ i' = i + WaveSize
    /\ pc' = "loop"
    /\ UNCHANGED <<symbols_arg, symbols, task, waves, sleeps, cycle, ingestorVars, fetchVars, sentVars, storeVars>>

\* line 324: the gather, made without return_exceptions, raises the first
\* exception of a task of the wave into ingest_all_symbols, which has no
\* handler: the exception leaves it
WaveRaise ==
    /\ pc = "wave"
    /\ \E k \in CurrentWave : task[k].st = "failed"
    /\ pc' = "raised"
    /\ UNCHANGED <<symbols_arg, symbols, i, task, waves, sleeps, cycle, ingestorVars, fetchVars, sentVars, storeVars>>

\* main.py: the exception leaves run_ingestion and asyncio.run, which cancels
\* the tasks still on the loop
LoopTeardown ==
    /\ pc = "raised"
    /\ \E k \in DOMAIN task : task[k].st = "running"
    /\ task' = [k \in DOMAIN task |->
                  IF task[k].st = "running"
                  THEN [task[k] EXCEPT !.st = "cancelled"] ELSE task[k]]
    /\ UNCHANGED <<symbols_arg, symbols, pc, i, waves, sleeps, cycle, ingestorVars, fetchVars, sentVars, storeVars>>

\* main.py lines 27-31: ingest_all_symbols has returned and run_ingestion
\* logs get_ingestion_stats()
ReportStats(unavailable) ==
    /\ pc = "done"
    /\ stats' = get_ingestion_stats(stats, processed_posts, market_posts,
                                    topic_summaries, unavailable)
    /\ pc' = "reported"
    /\ UNCHANGED <<processed_posts, market_posts, topic_summaries, vector_size, last, ncalls>>
    /\ UNCHANGED <<symbols_arg, symbols, i, task, waves, sleeps, cycle, fetchVars, sentVars, storeVars>>

NextCycle ==
    \/ StartCycle
    \/ LaunchWave
    \/ \E k \in 1..Len(symbols), kind \in Kinds, outcome \in Outcomes :
          TaskFetchResponse(k, kind, Response(outcome, kind, symbols[k]),
                            outcome # "ok")
    \/ \E k \in 1..Len(symbols) :
          TaskFetchResponse(k, "posts",
              [outcome |-> "ok", data |-> FaultyPosts(symbols[k])], TRUE)
    \/ \E k \in 1..Len(symbols), env_posts \in Envs, env_topic \in Envs :
          TaskProcess(k, env_posts, env_topic)
    \/ WaveJoin
    \/ SleepDone
    \/ WaveRaise
    \/ LoopTeardown
    \/ \E unavailable \in SUBSET {COLLECTION_POSTS, COLLECTION_TOPICS} :
          ReportStats(unavailable)

SpecCycle == InitCycle /\ [][NextCycle]_vars

----------------------------------------------------------------------------
(* SpecRun: the process of main.py.  run_ingestion runs once at startup    *)
(* and again at every tick of the scheduler, each time on a new            *)
(* LunarCrushIngestor and on the collections as the earlier cycles left    *)
(* them.  The collections were created with VECTOR_DIMENSION or with the   *)
(* encoder's size.  The source answers every request and the encoder       *)
(* works.                                                                  *)

MaxCycles == 2      \* run_ingestion cycles of the process

\* main.py line 22: settings.SYMBOLS, from the environment, or the default
RunSymbolLists == {<<"BTC">>, DEFAULT_SYMBOLS}

InitRun ==
    /\ processed_posts = {}
    /\ market_posts = EmptyBag
    /\ topic_summaries = EmptyBag
    /\ vector_size \in VectorSizes
    /\ last = NoCall
    /\ ncalls = 0
    /\ stats = NoStats
    /\ FetchOff /\ SentOff /\ StoreOff
    /\ symbols_arg \in RunSymbolLists
    /\ symbols = symbols_arg
    /\ pc = "idle"
    /\ i = 0
    /\ task = <<>>
    /\ waves = <<>>
    /\ sleeps = 0
    /\ cycle = 1

\* main.py line 19: ingestor = LunarCrushIngestor(), whose __init__ sets
\* self.processed_posts = set()
NewIngestor(processed) == {}

\* main.py lines 15-33: a cycle has ended and the scheduler calls
\* run_ingestion again, up to its call of ingest_all_symbols
RunIngestion ==
    /\ pc = "reported"
    /\ cycle < MaxCycles
    /\ cycle' = cycle + 1
    /\ processed_posts' = NewIngestor(processed_posts)
    /\ pc' = "idle"
    /\ i' = 0
    /\ task' = <<>>
    /\ waves' = <<>>
    /\ sleeps' = 0
    /\ stats' = NoStats
    /\ UNCHANGED <<symbols_arg, symbols, market_posts, topic_summaries, vector_size, last, ncalls>>
    /\ UNCHANGED <<fetchVars, sentVars, storeVars>>

NextRun ==
    \/ StartCycle
    \/ LaunchWave
    \/ \E k \in 1..Len(symbols), kind \in Kinds :
          TaskFetchResponse(k, kind, Response("ok", kind, symbols[k]), FALSE)
    \/ \E k \in 1..Len(symbols) : TaskProcess(k, "ok", "ok")
    \/ WaveJoin
    \/ SleepDone
    \/ ReportStats({})
    \/ RunIngestion

SpecRun == InitRun /\ [][NextRun]_vars

----------------------------------------------------------------------------
(* SpecPost: process_and_store_posts called once, on a new ingestor, with  *)
(* a list of one post drawn from every combination of raw sentiment,       *)
(* title, body and post_type.                                              *)

\* the string of n characters c
RECURSIVE Repeat(_, _)
Repeat(c, n) ==
    IF n = 0 THEN ""
    ELSE IF n % 2 = 0 THEN LET h == Repeat(c, n \div 2) IN h \o h
    ELSE c \o Repeat(c, n - 1)

\* lengths of the bodies, around the cuts at 500 and 1000 characters
BodyLengths == {0, 1, 499, 500, 501, 600, 999, 1000, 1001, 1200}

Bodies == {Absent, None} \cup {Text(Repeat("x", n)) : n \in BodyLengths}

\* raw sentiments on the source's 0..5 scale, or none
RawSentiments == {Absent} \cup {Num(n) : n \in 0..5}

Titles == {Absent, Text("t")}

PostTypes == {Absent, Text("tweet")}

OnePostLists ==
    {<<RichPost(Num(1), sentiment, title, body, post_type)>> :
        sentiment \in RawSentiments, title \in Titles, body \in Bodies,
        post_type \in PostTypes}

NextPost ==
    \E posts \in OnePostLists, symbol \in Symbols, env \in Envs :
        /\ ncalls = 0
        /\ CallProcessAndStorePosts(posts, symbol, JNone,
                                    env # "encode_fails", env # "upsert_fails")

SpecPost == Init /\ [][NextPost]_vars

----------------------------------------------------------------------------
(* SpecStore: one MarketDBVectorStore receiving a sequence of calls        *)
(* (add_market_posts, search_similar_posts) on the collection market_posts *)

MaxStoreCalls == 2      \* calls on one gateway

\* the post lists add_market_posts is called with: the empty list; a post
\* without sentiment; a post without text; a post whose text is null; a post
\* twice; a post without id whose text is longer than the limit
StorePostLists ==
    {<<>>,
     <<StorePost(Num(1), Absent, Text("hi"))>>,
     <<StorePost(Num(2), Num(4), Absent)>>,
     <<StorePost(Num(1), Num(4), None)>>,
     <<StorePost(Num(3), Num(2), Text("a")), StorePost(Num(3), Num(2), Text("a"))>>,
     <<StorePost(Absent, Num(0), Text(Repeat("y", 1200)))>>}

\* the symbol and sentiment_min arguments of a search; None is the default
\* of an argument left out
SearchSymbols == {None, Text(""), Text("BTC")}

SearchSentimentMins == {None, Num(0), Num(3)}

InitStore == IngestorInit /\ CycleOff /\ FetchOff /\ SentOff /\ StoreOff

CallAddMarketPosts(posts, symbol, upsert_ok, same_tick) ==
    /\ vs_calls < MaxStoreCalls
    /\ LET r == add_market_posts(posts, symbol, market_posts,
                    UpsertAccepted(vector_size, upsert_ok), same_tick)
       IN  /\ market_posts' = r.coll
           /\ vs_last' = r.call
    /\ vs_calls' = vs_calls + 1
    /\ UNCHANGED <<processed_posts, topic_summaries, vector_size, last, ncalls, stats>>
    /\ UNCHANGED <<cycleVars, fetchVars, sentVars>>

CallSearchSimilarPosts(symbol, sentiment_min) ==
    /\ vs_calls < MaxStoreCalls
    /\ vs_last' = search_similar_posts(symbol, sentiment_min, market_posts)
    /\ vs_calls' = vs_calls + 1
    /\ UNCHANGED <<ingestorVars, cycleVars, fetchVars, sentVars>>

NextStore ==
    \/ \E posts \in StorePostLists, symbol \in Symbols, upsert_ok \in BOOLEAN,
          same_tick \in BOOLEAN :
          CallAddMarketPosts(posts, symbol, upsert_ok, same_tick)
    \/ \E symbol \in SearchSymbols, sentiment_min \in SearchSentimentMins :
          CallSearchSimilarPosts(symbol, sentiment_min)

SpecStore == InitStore /\ [][NextStore]_vars

----------------------------------------------------------------------------
(* SpecStats: one ingestor on which get_ingestion_stats is called between  *)
(* processing calls, with either collection possibly unavailable.          *)

\* the post lists of the processing calls: the empty list; two new posts; a
\* post whose sentiment is null after a good one; a post twice in one list
StatsPostLists ==
    {<<>>,
     <<Post(Num(1), Absent), Post(Absent, Num(4))>>,
     <<Post(Num(2), Num(0)), Post(Num(3), None)>>,
     <<Post(Num(3), Absent), Post(Num(3), Absent)>>}

CallGetIngestionStats(unavailable) ==
    /\ ncalls < MaxCalls
    /\ stats' = get_ingestion_stats(stats, processed_posts, market_posts,
                                    topic_summaries, unavailable)
    /\ ncalls' = ncalls + 1
    /\ UNCHANGED <<processed_posts, market_posts, topic_summaries, vector_size, last>>
    /\ UNCHANGED <<cycleVars, fetchVars, sentVars, storeVars>>

NextStats ==
    \/ \E posts \in StatsPostLists, env \in Envs :
          CallProcessAndStorePosts(posts, "BTC", JNone,
                                   env # "encode_fails", env # "upsert_fails")
    \/ \E topic_data \in Topics, env \in Envs :
          CallProcessTopicSummary("BTC", topic_data, JNone,
                                  env # "encode_fails", env # "upsert_fails")
    \/ \E unavailable \in SUBSET {COLLECTION_POSTS, COLLECTION_TOPICS} :
          CallGetIngestionStats(unavailable)

SpecStats == Init /\ [][NextStats]_vars

----------------------------------------------------------------------------
(* Claims                                                                  *)

\* number of points of a posts collection whose payload carries post_id id
CopiesOfPost(coll, id) ==
    LET S == {p \in BagToSet(coll) : p.post_id = id}
    IN  BagCardinality([p \in S |-> coll[p]])

\* C1: once a post id is in processed_posts, no later call sends a point
\* carrying that post_id to the posts collection, and the number of stored
\* points with that post_id never changes again.
C1_SeenPostNeverSentAgain ==
    [][\A id \in processed_posts :
          /\ \A k \in 1..Len(last'.sent) : last'.sent[k].post_id # id
          /\ CopiesOfPost(market_posts', id) = CopiesOfPost(market_posts, id)]_vars

\* a later call met a post already processed, skipped it and sent nothing,
\* while the collection holds the point of the earlier call
C1_Witness ==
    /\ ncalls >= 2
    /\ last.op = "posts" /\ last.skipped > 0 /\ last.sent = <<>>
    /\ \E k \in 1..Len(last.posts) :
          CopiesOfPost(market_posts, PyStr(Get(last.posts[k].id, Text("")))) = 1

\* the record an "ok" answer makes the fetch return when the source holds
\* SourceData
SuccessfulRecord(kind, symbol) ==
    IF kind = "posts" THEN JList(SourceData(kind, symbol).posts)
    ELSE SourceData(kind, symbol)

\* the absent value of a kind
AbsentValue(kind) == IF kind = "posts" THEN JList(<<>>) ELSE JNone

FetchEnded == f_pc \in {"returned", "raised"}

\* C2: a fetch whose request fails (transport error or non-2xx) on attempts
\* 1 and 2 and would succeed on attempt 3 issues three requests and returns
\* the successful record.
C2_ThirdAttemptReturnsRecord ==
    (/\ FetchEnded
     /\ f_source = SourceData(f_kind, f_symbol)
     /\ f_plan[1] \in {"transport", "status"}
     /\ f_plan[2] \in {"transport", "status"}
     /\ f_plan[3] = "ok")
    => (/\ f_pc = "returned"
        /\ f_requests = 3
        /\ f_result = SuccessfulRecord(f_kind, f_symbol))

\* C3: a fetch never raises and never issues more than 3 requests; when every
\* attempt fails, fetch_social_posts returns [] and the other two None.
C3_FetchNeverRaises ==
    /\ f_pc # "raised"
    /\ f_requests <= 3
    /\ (f_pc = "returned" /\ \A k \in 1..3 : f_plan[k] # "ok")
          => f_result = AbsentValue(f_kind)

\* a fetch of market data has returned None although every request failed
C3_Witness ==
    /\ f_pc = "returned" /\ f_kind = "market"
    /\ \A k \in 1..3 : f_plan[k] \in {"transport", "status"}
    /\ f_result = JNone /\ f_requests >= 1

\* C8: for every breakdown whose numeric values lie in 0..100, the result of
\* _calculate_dominant_sentiment lies in [1, 5].
C8_DominantSentimentInRange ==
    (/\ ds_pc = "returned"
     /\ \A k \in 1..Len(sentiment_data) :
           IsNumber(sentiment_data[k][2]) => sentiment_data[k][2].n \in 0..100)
    => dominant \in 100..500

\* num/den, num >= 0, den > 0, to the nearest integer, a tie to the even
\* neighbour: rounding in exact arithmetic
RoundDiv(num, den) ==
    LET q == num \div den
        r == num % den
    IN  IF 2 * r > den \/ (2 * r = den /\ q % 2 = 1) THEN q + 1 ELSE q

RECURSIVE SumOfValues(_, _)
SumOfValues(d, K) ==
    IF K = {} THEN 0
    ELSE LET k == CHOOSE x \in K : TRUE
         IN  d[k][2].n + SumOfValues(d, K \ {k})

\* the reference: the mean of the numeric values, /20 + 1, to 2 decimals;
\* 3.0 when no value is numeric
ReferenceSentiment(d) ==
    LET K == {k \in 1..Len(d) : d[k][2].t = "int"}
    IN  IF K = {} THEN 300
        ELSE 100 + RoundDiv(5 * SumOfValues(d, K), Cardinality(K))

BadSentiment(post) ==
    post.sentiment.t \in {"absent", "none"} \/ post.sentiment = Text("n/a")

\* C10: a post whose raw sentiment is absent, null or non-numeric does not
\* make process_and_store_posts raise and is not dropped: it is sent with
\* sentiment 3.0, together with the other posts of the batch.
C10_BadSentimentStoredAsNeutral ==
    (last.op = "posts" /\ \E k \in 1..Len(last.posts) : BadSentiment(last.posts[k]))
    => /\ last.raised # "payload"
       /\ (last.raised = "none" /\ last.skipped = 0) =>
             /\ Len(last.sent) = Len(last.posts)
             /\ \A k \in 1..Len(last.posts) :
                   BadSentiment(last.posts[k]) => last.sent[k].sentiment = 300

\* C4: the failure of one symbol's task cancels or fails no other task and
\* prevents no later wave: the cycle never raises, no task is cancelled, and
\* at the end every symbol's task has run.
C4_TaskFailureIsolated ==
    /\ pc # "raised"
    /\ \A k \in DOMAIN task : task[k].st # "cancelled"
    /\ pc = "done" => \A k \in DOMAIN task : task[k].st \in {"done", "failed"}

InFlight == {k \in DOMAIN task : task[k].st = "running"}

RECURSIVE Flatten(_)
Flatten(ws) == IF ws = <<>> THEN <<>> ELSE Head(ws) \o Flatten(Tail(ws))

\* C5: never more than 3 ingest_symbol tasks are in flight; the waves run
\* are, in order, the consecutive slices of 3 symbols of the list, of which
\* there are ceil(N/3), all of size 3 except possibly the last; a cycle that
\* completes has run them all, and 7 symbols make waves of sizes 3, 3, 1.
C5_WavesOfThree ==
    LET N == Len(symbols)
        W == (N + 2) \div 3
    IN  /\ Cardinality(InFlight) <= 3
        /\ Len(waves) <= W
        /\ \A w \in 1..Len(waves) :
              /\ waves[w] = SubSeq(symbols, 3 * (w - 1) + 1, Min(3 * w, N))
              /\ Len(waves[w]) = IF w < W THEN 3 ELSE N - 3 * (W - 1)
        /\ pc = "done" =>
              /\ Len(waves) = W
              /\ Flatten(waves) = symbols
              /\ N = 7 => <<Len(waves[1]), Len(waves[2]), Len(waves[3])>> = <<3, 3, 1>>

\* a cycle of 7 symbols is complete after waves of 3, 3 and 1 symbols
C5_Witness ==
    /\ pc = "done" /\ Len(symbols) = 7 /\ Len(waves) = 3
    /\ Len(waves[3]) = 1
    /\ \A k \in DOMAIN task : task[k].st = "done"

\* C6: no task of a later wave has started while a task of an earlier wave
\* has not finished.
C6_WaveOrder ==
    \A j \in DOMAIN task, k \in DOMAIN task :
        (task[j].st # "none" /\ task[k].st # "none" /\ task[j].wave < task[k].wave)
           => task[j].st \in {"done", "failed"}

\* a task of the second wave is running, the first wave being done
C6_Witness ==
    \E j \in DOMAIN task, k \in DOMAIN task :
        /\ task[j].wave = 1 /\ task[j].st = "done"
        /\ task[k].wave = 2 /\ task[k].st = "running"

\* C7: no post-processing of a symbol starts before its three fetches have
\* resolved.
C7_ProcessAfterAllFetches ==
    \A k \in DOMAIN task :
        task[k].processed =>
           \A kind \in Kinds : FetchOf(task[k], kind).st = "resolved"

\* a task whose market fetch came back absent has processed and stored its
\* posts and its topic summary
C7_Witness ==
    \E k \in DOMAIN task :
        /\ task[k].processed /\ task[k].st = "done"
        /\ task[k].market.value.k = "none"
        /\ \E p \in BagToSet(market_posts) :
              p.symbol = symbols[k] /\ p.market_price = None
        /\ \E p \in BagToSet(topic_summaries) : p.symbol = symbols[k]

\* C11: every point of the posts collection written by
\* process_and_store_posts has a sentiment in [1, 5], whatever the raw
\* sentiment of the post on the 0..5 scale.
C11_StoredSentimentInRange ==
    (/\ last.op = "posts"
     /\ \A k \in 1..Len(last.posts) :
           last.posts[k].sentiment \in RawSentiments)
    => \A p \in BagToSet(market_posts) : p.sentiment \in 100..500

\* C12: ingest_symbol on a new ingestor, for one symbol whose fetches return
\* 2 posts with distinct ids and a topic summary with breakdown
\* {twitter: 90, reddit: 70}, all store writes succeeding, adds exactly 2
\* points to the posts collection, one per post, with sentiment 3.0 where the
\* raw sentiment is absent, and exactly 1 point to the topics collection,
\* whose dominant_sentiment is 5.0.
C12_EndToEnd ==
    (/\ Len(symbols) = 1 /\ task # <<>>
     /\ task[1].st \in {"done", "failed"}
     /\ \A kind \in Kinds :
           FetchOf(task[1], kind).value = SuccessfulRecord(kind, symbols[1])
     /\ task[1].pcall.upserts = 1 => task[1].pcall.stored
     /\ task[1].tcall.upserts = 1 => task[1].tcall.stored)
    => /\ task[1].st = "done"
       /\ BagCardinality(market_posts) = 2
       /\ \A k \in 1..2 :
             LET post == SourceData("posts", symbols[1]).posts[k]
                 id   == PyStr(post.id)
             IN  /\ CopiesOfPost(market_posts, id) = 1
                 /\ \A p \in BagToSet(market_posts) :
                       p.post_id = id =>
                          /\ p.symbol = symbols[1]
                          /\ p.sentiment = IF post.sentiment = Absent THEN 300
                                           ELSE 100 * post.sentiment.n
       /\ BagCardinality(topic_summaries) = 1
       /\ \A p \in BagToSet(topic_summaries) :
             /\ p.symbol = symbols[1]
             /\ p.sentiment_breakdown = <<<<"twitter", Num(90)>>, <<"reddit", Num(70)>>>>
             /\ p.dominant_sentiment = 500

\* the cycle of the one symbol BTC is complete: two post points, of which
\* the one without raw sentiment carries 3.0, and one topic point with 5.0
C12_Witness ==
    /\ symbols = <<"BTC">> /\ pc = "done"
    /\ task[1].st = "done" /\ task[1].pcall.stored /\ task[1].tcall.stored
    /\ BagCardinality(market_posts) = 2
    /\ \E p \in BagToSet(market_posts) : p.post_id = "BTC" /\ p.sentiment = 300
    /\ \E p \in BagToSet(topic_summaries) : p.dominant_sentiment = 500

\* the ids (as dedup keys) of the posts a task has fetched
FetchedIds(t) ==
    {PyStr(Get(t.posts.value.posts[n].id, Text(""))) :
        n \in 1..Len(t.posts.value.posts)}

\* C13: when two ingest_symbol tasks of one wave both fetch a post with the
\* same id, then under every interleaving of their steps at most one point
\* with that post_id is written to the posts collection.
C13_DedupSafeInWave ==
    \A j \in DOMAIN task, k \in DOMAIN task :
        (j # k /\ task[j].wave = task[k].wave /\ task[j].st # "none")
        => \A id \in FetchedIds(task[j]) \cap FetchedIds(task[k]) :
              CopiesOfPost(market_posts, id) <= 1

\* two tasks of one wave have both fetched post 7 and both run their
\* processing: one encoded it with its own post, the other only its own, and
\* the collection holds one point of post 7
C13_Witness ==
    \E j \in DOMAIN task, k \in DOMAIN task :
        /\ j # k /\ task[j].wave = task[k].wave
        /\ task[j].st = "done" /\ task[k].st = "done"
        /\ "7" \in FetchedIds(task[j]) \cap FetchedIds(task[k])
        /\ task[j].pcall.encoded = 2 /\ task[k].pcall.encoded = 1
        /\ CopiesOfPost(market_posts, "7") = 1

\* number of points of the topics collection written for a symbol
TopicPointsOf(symbol) ==
    LET S == {p \in BagToSet(topic_summaries) : p.symbol = symbol}
    IN  BagCardinality([p \in S |-> topic_summaries[p]])

\* C14: when the upsert of a posts batch or of a topic summary fails, the
\* ingestor has made exactly one upsert attempt for it, does not raise, and
\* the symbol's task goes on: after a failed posts upsert the topic summary
\* of the same symbol is still processed and written.
C14_FailedUpsertContained ==
    \A k \in DOMAIN task :
        LET t == task[k]
        IN  /\ (t.pcall.upserts # 0 /\ ~t.pcall.stored) =>
                  /\ t.pcall.upserts = 1
                  /\ t.pcall.raised = "none"
                  /\ ~Falsy(t.topic.value) =>
                        /\ t.tcall.op = "topic"
                        /\ t.tcall.raised = "none" => t.st = "done"
                        /\ t.tcall.stored => TopicPointsOf(symbols[k]) = 1
            /\ (t.tcall.upserts # 0 /\ ~t.tcall.stored) =>
                  /\ t.tcall.upserts = 1
                  /\ t.tcall.raised = "none"
                  /\ t.st = "done"

\* the upsert of a task's posts failed, no point of the symbol is in the
\* posts collection, and the task is done with its topic summary written
C14_Witness ==
    \E k \in DOMAIN task :
        /\ task[k].st = "done"
        /\ task[k].pcall.upserts = 1 /\ ~task[k].pcall.stored
        /\ \A p \in BagToSet(market_posts) : p.symbol # symbols[k]
        /\ task[k].tcall.stored /\ TopicPointsOf(symbols[k]) = 1

\* the store has rejected a write of task k
WriteRejected(k) ==
    \/ task[k].pcall.upserts # 0 /\ ~task[k].pcall.stored
    \/ task[k].tcall.upserts # 0 /\ ~task[k].tcall.stored

\* C15: when the embedding vectors are not of the collection's size, so that
\* the store rejects the write, the cycle is aborted: no later wave is
\* launched and the cycle does not end in its Done state.
C15_DimensionMismatchAborts ==
    \A k \in DOMAIN task :
        (vector_size # EMBEDDING_DIM /\ WriteRejected(k))
        => /\ pc # "done"
           /\ Len(waves) = task[k].wave

\* C16: across the cycles of one process, a post stored by an earlier cycle
\* is not stored again by a later one when the source returns it again: the
\* posts collection never holds two points of one post id.
C16_NoRestoreAcrossCycles ==
    \A p \in BagToSet(market_posts) : CopiesOfPost(market_posts, p.post_id) <= 1

\* C17: fetch_social_posts returns at most MAX_POSTS_PER_SYMBOL posts and
\* raises no error: when the source returns more, the result is the first
\* MAX_POSTS_PER_SYMBOL posts in source order; when it returns fewer, the
\* result is the whole list.
C17_PostsCapped ==
    (f_kind = "posts" /\ FetchEnded) =>
       LET src == f_source.posts
           res == f_result.posts
       IN  /\ f_pc = "returned"
           /\ f_result.k = "list"
           /\ Len(res) <= MAX_POSTS_PER_SYMBOL
           /\ f_plan[f_requests] = "ok" =>
                 /\ Len(res) = IF Len(src) > MAX_POSTS_PER_SYMBOL
                               THEN MAX_POSTS_PER_SYMBOL ELSE Len(src)
                 /\ \A k \in 1..Len(res) : res[k] = src[k]
                 /\ Len(src) <= MAX_POSTS_PER_SYMBOL => res = src

\* the source held 150 posts and the fetch has returned its first 100
C17_Witness ==
    /\ f_kind = "posts" /\ f_pc = "returned"
    /\ Len(f_source.posts) = 150
    /\ Len(f_result.posts) = 100
    /\ f_result.posts[100] = f_source.posts[100]

\* length of the body of a post: 0 when there is none
BodyLength(post) == IF post.body.t = "str" THEN Len(post.body.s) ELSE 0

\* number of body characters a text carries (the bodies are made of "x",
\* which no other segment holds)
BodyCharsIn(text) ==
    Cardinality({k \in 1..Len(text) : SubSeq(text, k, k) = "x"})

\* C18: for every body length L, the Content segment of the embedding text
\* carries min(L, 500) body characters, the stored body has length
\* min(L, 1000), and the stored embedding_text has length at most 500 and is
\* the prefix of the embedding text.
C18_TextLimits ==
    (last.op = "posts" /\ Len(last.posts) = 1 /\ last.texts # <<>>) =>
       LET L    == BodyLength(last.posts[1])
           text == last.texts[1]
       IN  /\ BodyCharsIn(text) = Min(L, 500)
           /\ L > 0 => \E k \in 1..Len(text) :
                          SubSeq(text, k, k + 8 + Min(L, 500)) =
                             "Content: " \o SubSeq(last.posts[1].body.s, 1, Min(L, 500))
           /\ last.sent # <<>> =>
                 LET p == last.sent[1]
                 IN  /\ Len(p.body) = Min(L, 1000)
                     /\ L > 0 => p.body = SubSeq(last.posts[1].body.s, 1, Len(p.body))
                     /\ Len(p.embedding_text) <= 500
                     /\ Len(p.embedding_text) = Min(Len(text), 500)
                     /\ p.embedding_text = SubSeq(text, 1, Len(p.embedding_text))

\* a post with a body of 1200 characters has been sent: 500 of them in the
\* embedding text, 1000 in the stored body, and an embedding_text of 500
\* characters, shorter than the text embedded
C18_Witness ==
    /\ last.op = "posts" /\ last.stored /\ Len(last.sent) = 1
    /\ BodyLength(last.posts[1]) = 1200
    /\ BodyCharsIn(last.texts[1]) = 500
    /\ Len(last.sent[1].body) = 1000
    /\ Len(last.sent[1].embedding_text) = 500
    /\ Len(last.texts[1]) > 500

\* C19: add_market_posts never raises; it returns True exactly when its one
\* batched upsert succeeded and False on any failure while building the
\* points or writing; it calls the store's upsert at most once.
C19_AddMarketPostsGuarded ==
    vs_last.op = "add" =>
       /\ ~vs_last.raised
       /\ vs_last.ret \in {"True", "False"}
       /\ vs_last.upserts <= 1
       /\ vs_last.ret = "True" <=> (vs_last.upserts = 1 /\ vs_last.written)
       /\ (~vs_last.built \/ ~vs_last.written) => vs_last.ret = "False"

\* a call whose upsert failed has returned False, a point of an earlier
\* call being in the collection
C19_Witness ==
    /\ vs_last.op = "add" /\ vs_last.ret = "False"
    /\ vs_last.built /\ vs_last.upserts = 1 /\ ~vs_last.written
    /\ market_posts # EmptyBag

\* the conditions the arguments supplied call for: an argument is supplied
\* when it is not None
ExpectedConditions(symbol, sentiment_min) ==
    (IF symbol # None
     THEN {[key |-> "symbol", op |-> "match", value |-> symbol]} ELSE {})
    \cup (IF sentiment_min # None
          THEN {[key |-> "sentiment", op |-> "gte", value |-> sentiment_min]}
          ELSE {})

\* C20: for every combination of arguments of search_similar_posts (symbol
\* absent or any string, sentiment_min absent or any number, 0 included), the
\* filter passed to the store is the conjunction of exactly the predicates
\* of the supplied arguments, and no filter is passed exactly when neither
\* argument is supplied.
C20_FilterOfSuppliedArguments ==
    vs_last.op = "search" =>
       LET symbol        == vs_last.args[1]
           sentiment_min == vs_last.args[2]
       IN  /\ {vs_last.filter[k] : k \in 1..Len(vs_last.filter)}
                 = ExpectedConditions(symbol, sentiment_min)
           /\ ~vs_last.filtered <=> (symbol = None /\ sentiment_min = None)

----------------------------------------------------------------------------
\* the items of a breakdown in another iteration order
Reordered(d, f) == [k \in 1..Len(d) |-> d[f[k]]]

\* C21: _calculate_dominant_sentiment is deterministic and order-independent:
\* for every breakdown and every permutation of its entries the result is the
\* same.
C21_OrderIndependent ==
    ds_pc = "returned" =>
        \A f \in Permutations(1..Len(sentiment_data)) :
            calculate_dominant_sentiment(Reordered(sentiment_data, f)) = dominant

----------------------------------------------------------------------------
\* the market context of the points of task k: the price of the snapshot, or
\* null when the snapshot is absent
MarketContext(k) ==
    IF Falsy(task[k].market.value) THEN None
    ELSE Num(task[k].market.value.price)

\* what task k fetched is what the source holds or absent, and the encoder
\* has returned
SoundInputs(k) ==
    /\ task[k].posts.value # FaultyPosts(symbols[k])
    /\ task[k].pcall.raised # "encode"
    /\ task[k].tcall.raised # "encode"

\* C22: partial fetch results are processed: whatever subset of the three
\* fetches of a task comes back absent, each kind that is present is still
\* processed (the posts are written with a null market price when the market
\* snapshot is absent, the topic summary is written whether or not there are
\* posts), an absent kind is not processed, and the task completes without
\* raising.
C22_PartialResultsProcessed ==
    \A k \in DOMAIN task :
        LET t == task[k]
        IN  (t.processed /\ SoundInputs(k)) =>
               /\ t.st = "done"
               /\ Falsy(t.posts.value) => t.pcall.op = "none"
               /\ ~Falsy(t.posts.value) =>
                     /\ t.pcall.op = "posts"
                     /\ t.pcall.encoded >= 1
                     /\ t.pcall.upserts = 1
                     /\ t.pcall.stored =>
                           /\ \E p \in BagToSet(market_posts) : p.symbol = symbols[k]
                           /\ \A p \in BagToSet(market_posts) :
                                 p.symbol = symbols[k] =>
                                    p.market_price = MarketContext(k)
               /\ Falsy(t.topic.value) => t.tcall.op = "none"
               /\ ~Falsy(t.topic.value) =>
                     /\ t.tcall.op = "topic"
                     /\ t.tcall.upserts = 1
                     /\ t.tcall.stored =>
                           /\ TopicPointsOf(symbols[k]) = 1
                           /\ \A p \in BagToSet(topic_summaries) :
                                 p.symbol = symbols[k] =>
                                    p.market_price = MarketContext(k)

\* a task whose market and topic fetches came back absent is done, and its
\* post is in the collection with a null market price
C22_Witness ==
    \E k \in DOMAIN task :
        /\ task[k].st = "done"
        /\ task[k].market.value = JNone
        /\ Falsy(task[k].topic.value)
        /\ task[k].pcall.stored
        /\ \E p \in BagToSet(market_posts) :
              p.symbol = symbols[k] /\ p.market_price = None

----------------------------------------------------------------------------
\* C23: a cycle of W waves that completes has made exactly W-1 inter-wave
\* delays: while a wave runs one delay has been made for each wave before it
\* (none before the first), a delay is made only after a wave that another
\* wave follows, and none after the last.
C23_InterWaveDelays ==
    /\ pc = "wave" => sleeps = Len(waves) - 1
    /\ pc \in {"loop", "sleep"} => sleeps = Len(waves)
    /\ pc = "sleep" => Len(waves) * WaveSize < Len(symbols)
    /\ pc \in {"done", "reported"} =>
          /\ Len(waves) * WaveSize >= Len(symbols)
          /\ sleeps = Len(waves) - 1

\* a cycle of three waves is complete after two delays
C23_Witness == pc = "done" /\ Len(waves) = 3 /\ sleeps = 2

----------------------------------------------------------------------------
\* the dedup key of a post
PostKey(post) == PyStr(Get(post.id, Text("")))

\* the posts of a list that are unseen when the loop reaches them, in input
\* order
RECURSIVE Unseen(_, _)
Unseen(posts, seen) ==
    IF posts = <<>> THEN <<>>
    ELSE IF PostKey(Head(posts)) \in seen THEN Unseen(Tail(posts), seen)
    ELSE <<Head(posts)>> \o Unseen(Tail(posts), seen \cup {PostKey(Head(posts))})

\* C24: the dedup cache gates embedding: a call of process_and_store_posts
\* whose posts are all in processed_posts, or whose list is empty, makes no
\* embedding request and no store write and leaves processed_posts unchanged;
\* any other call hands the encoder one text per unseen post and, when the
\* encoder returns, writes one batch of one point per unseen post, in input
\* order.
C24_DedupGatesEmbedding ==
    [][(ncalls' = ncalls + 1 /\ last'.op = "posts") =>
          LET U == Unseen(last'.posts, processed_posts)
          IN  IF U = <<>>
              THEN /\ last'.encoded = 0
                   /\ last'.upserts = 0
                   /\ processed_posts' = processed_posts
                   /\ market_posts' = market_posts
              ELSE /\ last'.encoded = Len(U)
                   /\ last'.raised # "encode" =>
                         /\ last'.upserts = 1
                         /\ Len(last'.sent) = Len(U)
                         /\ \A j \in 1..Len(U) :
                               last'.sent[j].post_id = PostKey(U[j])]_vars

----------------------------------------------------------------------------
\* C25: stored points are never mutated or overwritten by ingestion: every
\* point written gets a fresh id, so every step leaves each stored point in
\* place and no collection loses a point; a posts write adds one point per
\* payload sent, and a topic summary write adds one point, also when the
\* symbol's summary was written before.
C25_PointsNeverOverwritten ==
    [][/\ market_posts \sqsubseteq market_posts'
       /\ topic_summaries \sqsubseteq topic_summaries'
       /\ (ncalls' = ncalls + 1 /\ last'.op = "posts" /\ last'.stored) =>
             BagCardinality(market_posts') =
                BagCardinality(market_posts) + Len(last'.sent)
       /\ (ncalls' = ncalls + 1 /\ last'.op = "topic" /\ last'.stored) =>
             BagCardinality(topic_summaries') =
                BagCardinality(topic_summaries) + 1]_vars

\* the topic summary of a symbol was ingested twice with the same content,
\* and both points are in the collection
C25_Witness ==
    \E p \in BagToSet(topic_summaries) : CopiesIn(p, topic_summaries) >= 2

----------------------------------------------------------------------------
\* the cycle has ended: ingest_all_symbols was left by an exception or
\* run_ingestion has logged the stats, and no task of the cycle is running
CycleEnded ==
    /\ pc \in {"raised", "reported"}
    /\ \A k \in DOMAIN task : task[k].st # "running"

\* C26: every ingestion cycle reaches Done: whatever the symbol list, when
\* every fetch, encoder call and store write returns, with success or
\* failure, the cycle ends with ingest_all_symbols returned after the last
\* wave and get_ingestion_stats reported.
C26_CycleReachesDone ==
    CycleEnded =>
       /\ pc = "reported"
       /\ stats.n = 1
       /\ Len(waves) * WaveSize >= Len(symbols)

----------------------------------------------------------------------------
\* the entry of a report for a collection: the error entry when the
\* collection could not be described, else its counts and status
EntryDescribes(entry, coll, failed) ==
    IF failed
    THEN entry.error
    ELSE /\ ~entry.error
         /\ entry.points_count = BagCardinality(coll)
         /\ entry.vectors_count = BagCardinality(coll)
         /\ entry.status = "green"

\* C27: get_ingestion_stats never raises and changes no state: it reports,
\* for each collection, the point and vector counts and status, or an error
\* entry for just the collection that could not be described, and
\* processed_posts as the number of distinct ids marked as seen, a number
\* that never decreases from one report of the ingestor to the next.
C27_StatsReport ==
    [][/\ Cardinality(processed_posts') >= Cardinality(processed_posts)
       /\ stats'.n = stats.n + 1 =>
             /\ ~stats'.raised
             /\ UNCHANGED <<processed_posts, market_posts, topic_summaries, last>>
             /\ EntryDescribes(stats'.report.market_posts, market_posts,
                               COLLECTION_POSTS \in stats'.unavailable)
             /\ EntryDescribes(stats'.report.topic_summaries, topic_summaries,
                               COLLECTION_TOPICS \in stats'.unavailable)
             /\ stats'.report.processed_posts = Cardinality(processed_posts)
             /\ stats'.report.processed_posts >= stats.report.processed_posts]_vars

\* the second report of an ingestor, made after two posts were processed:
\* the posts collection could not be described, the topics collection is
\* reported, and processed_posts is 2
C27_Witness ==
    /\ stats.n = 2
    /\ stats.report.market_posts.error
    /\ ~stats.report.topic_summaries.error
    /\ stats.report.processed_posts = 2

----------------------------------------------------------------------------
\* the ids a call marks before the loop ends or float() rejects a sentiment
RECURSIVE MarkedBy(_, _)
MarkedBy(posts, seen) ==
    IF posts = <<>> THEN {}
    ELSE IF PostKey(Head(posts)) \in seen THEN MarkedBy(Tail(posts), seen)
    ELSE IF Head(posts).sentiment \in {None, Text("n/a")} THEN {}
    ELSE {PostKey(Head(posts))}
            \cup MarkedBy(Tail(posts), seen \cup {PostKey(Head(posts))})

\* the ids marked as seen of which the posts collection holds no point
Orphans == {id \in processed_posts : CopiesOfPost(market_posts, id) = 0}

\* C28: a post id is marked as seen before its point is written: when the
\* embedding call raises, the upsert fails or a later post of the batch
\* raises during payload construction, every id the call has marked stays in
\* processed_posts, and no later call stores those posts: an id that is
\* marked and has no point stays marked and without a point.
C28_MarkedBeforeWritten ==
    [][/\ (ncalls' = ncalls + 1 /\ last'.op = "posts" /\ ~last'.stored) =>
             /\ processed_posts' =
                   processed_posts \cup MarkedBy(last'.posts, processed_posts)
             /\ market_posts' = market_posts
       /\ \A id \in Orphans :
             id \in processed_posts' /\ CopiesOfPost(market_posts', id) = 0]_vars

\* a post was marked in a call that wrote nothing, and a later call that
\* was handed the post skipped it
C28_Witness ==
    /\ ncalls >= 2
    /\ last.op = "posts" /\ last.posts # <<>>
    /\ last.skipped = Len(last.posts) /\ last.encoded = 0
    /\ \E k \in 1..Len(last.posts) : PostKey(last.posts[k]) \in Orphans

----------------------------------------------------------------------------
\* the positions of a list that hold a post without an id
IdLess(posts) == {k \in 1..Len(posts) : posts[k].id = Absent}

\* C29: posts without an id share the dedup key "": over the lifetime of an
\* ingestor at most one post lacking an id is embedded and stored, and once
\* the key is marked every later id-less post, of any symbol, is skipped.
C29_IdLessPostsShareKey ==
    [][/\ CopiesOfPost(market_posts', "") <= 1
       /\ (ncalls' = ncalls + 1 /\ last'.op = "posts") =>
             /\ Cardinality({j \in 1..Len(last'.sent) :
                               last'.sent[j].post_id = ""}) <= 1
             /\ "" \in processed_posts =>
                   /\ \A j \in 1..Len(last'.sent) : last'.sent[j].post_id # ""
                   /\ last'.encoded <= Len(last'.posts) - Cardinality(IdLess(last'.posts))
                   /\ last'.raised = "none" =>
                         last'.skipped >= Cardinality(IdLess(last'.posts))]_vars

\* one id-less post is stored, under BTC, and a call for ETH has skipped an
\* id-less post
C29_Witness ==
    /\ CopiesOfPost(market_posts, "") = 1
    /\ \A p \in BagToSet(market_posts) : p.post_id = "" => p.symbol = "BTC"
    /\ last.op = "posts" /\ last.symbol = "ETH"
    /\ IdLess(last.posts) # {}
    /\ last.skipped >= 1 /\ last.raised = "none"

----------------------------------------------------------------------------
\* the waves a symbol list is cut into: consecutive runs of three symbols,
\* the last one shorter when the length is not a multiple of three
WavesOf(syms) ==
    [w \in 1..((Len(syms) + 2) \div 3) |->
        SubSeq(syms, 3 * (w - 1) + 1, Min(3 * w, Len(syms)))]

\* the list a call of ingest_all_symbols works on
Effective(arg) == IF arg = <<>> THEN DEFAULT_SYMBOLS ELSE arg

\* C30: ingest_all_symbols called with an empty symbol list (or with none)
\* does not run an empty cycle: it ingests the configured DEFAULT_SYMBOLS in
\* waves, exactly as if that list had been passed. Once the call has
\* started it has one task per symbol of the effective list, the waves it
\* has launched are the first waves of that list, and a call that returns
\* has launched all of them.
C30_EmptyListIngestsDefaults ==
    pc # "idle" =>
       LET eff == Effective(symbols_arg)
       IN  /\ symbols = eff
           /\ DOMAIN task = 1..Len(eff)
           /\ Len(waves) <= Len(WavesOf(eff))
           /\ waves = SubSeq(WavesOf(eff), 1, Len(waves))
           /\ pc \in {"done", "reported"} =>
                 /\ waves = WavesOf(eff)
                 /\ waves # <<>>
                 /\ \A k \in DOMAIN task : task[k].st = "done"

\* the call was handed the empty list and has returned with the five default
\* symbols ingested in two waves
C30_Witness ==
    /\ symbols_arg = <<>>
    /\ pc = "reported"
    /\ waves = <<<<"BTC", "ETH", "SOL">>, <<"AVAX", "MATIC">>>>
    /\ \A k \in 1..Len(DEFAULT_SYMBOLS) : task[k].st = "done"

====
